---------------------------- MODULE Spec2Model ----------------------------
(***************************************************************************)
(* wry_cmd: the command registry, the dispatcher handle_command and the    *)
(* protocol handler built by use_wry_cmd_protocol!, as a state machine.    *)
(*                                                                         *)
(* Text is modelled as Rust holds it: a sequence of bytes (0..255).        *)
(* Bytes(<<"g","r">>) writes a literal, Text(bytes) prints one.            *)
(***************************************************************************)
EXTENDS Integers, Sequences, FiniteSets, TLC

(***************************************************************************)
(* Bounds of the model.                                                    *)
(***************************************************************************)
\* Number of inbound requests the transport delivers in one behaviour.
MaxRequests == 2
\* Longest generated raw command name of the name-resolution specification.
MaxNameLen == 3

(***************************************************************************)
(* let x = value in Body(x), with the value computed once.                 *)
(***************************************************************************)
With(value, Body(_)) == CHOOSE y \in { Body(x) : x \in {value} } : TRUE

(***************************************************************************)
(* Bytes and text.                                                         *)
(***************************************************************************)
\* The printable ASCII characters, 0x20 .. 0x7E, in code order ("<60>" names
\* the grave accent, which a TLA+ string cannot hold).
ASCII ==
  << " ", "!", "\"", "#", "$", "%", "&", "'", "(", ")", "*", "+", ",", "-", ".", "/",
     "0", "1", "2", "3", "4", "5", "6", "7", "8", "9", ":", ";", "<", "=", ">", "?",
     "@", "A", "B", "C", "D", "E", "F", "G", "H", "I", "J", "K", "L", "M", "N", "O",
     "P", "Q", "R", "S", "T", "U", "V", "W", "X", "Y", "Z", "[", "\\", "]", "^", "_",
     "<60>", "a", "b", "c", "d", "e", "f", "g", "h", "i", "j", "k", "l", "m", "n", "o",
     "p", "q", "r", "s", "t", "u", "v", "w", "x", "y", "z", "{", "|", "}", "~" >>

HexDigits ==
  << "0", "1", "2", "3", "4", "5", "6", "7", "8", "9", "A", "B", "C", "D", "E", "F" >>

\* The byte of each printable ASCII character.
CodeOf ==
  [c \in {ASCII[i] : i \in 1..Len(ASCII)} |-> 31 + CHOOSE i \in 1..Len(ASCII) : ASCII[i] = c]

Code(c) == CodeOf[c]

\* A literal: the bytes of a sequence of printable ASCII characters.
Bytes(cs) == [i \in 1..Len(cs) |-> Code(cs[i])]

\* One byte, printed: itself when printable, <HH> otherwise.
ByteText(b) ==
  IF b >= 32 /\ b <= 126 THEN ASCII[b - 31]
  ELSE "<" \o HexDigits[(b \div 16) + 1] \o HexDigits[(b % 16) + 1] \o ">"

\* The text of a byte sequence, printed half by half.
RECURSIVE Text(_)
Text(bs) ==
  IF bs = <<>> THEN ""
  ELSE IF Len(bs) = 1 THEN ByteText(bs[1])
  ELSE Text(SubSeq(bs, 1, Len(bs) \div 2)) \o Text(SubSeq(bs, (Len(bs) \div 2) + 1, Len(bs)))

\* The first position of s that P holds of, 0 when there is none.
FirstIndex(s, P(_)) ==
  IF \E i \in 1..Len(s) : P(i)
  THEN CHOOSE i \in 1..Len(s) : P(i) /\ \A j \in 1..(i - 1) : ~P(j)
  ELSE 0

\* The text after its first k bytes.
Drop(bs, k) == SubSeq(bs, k + 1, Len(bs))

SLASH == Code("/")
PERCENT == Code("%")

(***************************************************************************)
(* str::trim_matches and str::trim_start_matches, for one byte.            *)
(***************************************************************************)
\* A trim that strips one leading slash (strip_prefix).
trim_start_matches_Once(s, b) == IF s # <<>> /\ Head(s) = b THEN Tail(s) ELSE s

RECURSIVE trim_start_matches(_, _)
trim_start_matches(s, b) ==
  IF s # <<>> /\ Head(s) = b THEN trim_start_matches(Tail(s), b) ELSE s

\* The text without its trailing b's, n being the length still to examine.
RECURSIVE TrimEndTo(_, _, _)
TrimEndTo(s, b, n) ==
  IF n > 0 /\ s[n] = b THEN TrimEndTo(s, b, n - 1) ELSE SubSeq(s, 1, n)

trim_end_matches(s, b) == TrimEndTo(s, b, Len(s))

\* A trim that strips one slash at each end (strip_prefix, strip_suffix).
trim_matches_Once(s, b) ==
  LET t == IF s # <<>> /\ Head(s) = b THEN Tail(s) ELSE s
  IN  IF t # <<>> /\ t[Len(t)] = b THEN SubSeq(t, 1, Len(t) - 1) ELSE t

trim_matches(s, b) == trim_end_matches(trim_start_matches(s, b), b)

(***************************************************************************)
(* percent_encoding::percent_decode_str(..).decode_utf8().                 *)
(***************************************************************************)
IsHex(b) == (b >= 48 /\ b <= 57) \/ (b >= 65 /\ b <= 70) \/ (b >= 97 /\ b <= 102)

HexVal(b) == IF b <= 57 THEN b - 48 ELSE IF b <= 70 THEN b - 55 ELSE b - 87

\* Whether an escape "%HH" starts at position i of s.
IsEscapeAt(s, i) ==
  s[i] = PERCENT /\ i + 2 <= Len(s) /\ IsHex(s[i + 1]) /\ IsHex(s[i + 2])

\* "%HH" becomes the byte 0xHH; a '%' not followed by two hex digits stays.
\* The bytes before the first escape are copied, the escape is decoded, and
\* the rest is decoded in the same way.
RECURSIVE percent_decode_str(_)
percent_decode_str(s) ==
  With(FirstIndex(s, LAMBDA i : IsEscapeAt(s, i)), LAMBDA i :
    IF i = 0 THEN s
    ELSE SubSeq(s, 1, i - 1)
           \o <<16 * HexVal(s[i + 1]) + HexVal(s[i + 2])>>
           \o percent_decode_str(Drop(s, i + 2)))

IsCont(b) == b >= 128 /\ b <= 191

\* The length of the well-formed UTF-8 sequence that starts s, 0 when s
\* starts with none (overlong forms, surrogates and code points above
\* U+10FFFF are not well-formed).
Utf8SeqLen(s) ==
  LET b == s[1]
      n == Len(s)
  IN  IF b <= 127 THEN 1
      ELSE IF b >= 194 /\ b <= 223
           THEN IF n >= 2 /\ IsCont(s[2]) THEN 2 ELSE 0
      ELSE IF b >= 224 /\ b <= 239
           THEN IF /\ n >= 3
                   /\ IsCont(s[2]) /\ IsCont(s[3])
                   /\ (b = 224 => s[2] >= 160)
                   /\ (b = 237 => s[2] <= 159)
                THEN 3 ELSE 0
      ELSE IF b >= 240 /\ b <= 244
           THEN IF /\ n >= 4
                   /\ IsCont(s[2]) /\ IsCont(s[3]) /\ IsCont(s[4])
                   /\ (b = 240 => s[2] >= 144)
                   /\ (b = 244 => s[2] <= 143)
                THEN 4 ELSE 0
      ELSE 0

\* Whether a byte sequence is well-formed UTF-8 (what from_utf8 accepts):
\* the ASCII bytes before the first other byte are passed over, and a
\* well-formed sequence must start there.
RECURSIVE Utf8Valid(_)
Utf8Valid(s) ==
  With(FirstIndex(s, LAMBDA i : s[i] > 127), LAMBDA i :
    IF i = 0 THEN TRUE
    ELSE With(Utf8SeqLen(Drop(s, i - 1)), LAMBDA k :
           k # 0 /\ Utf8Valid(Drop(s, i - 1 + k))))

\* Result<Cow<str>, Utf8Error> of decode_utf8, as an Option: <<text>> or <<>>.
decode_utf8(bs) == IF Utf8Valid(bs) THEN <<bs>> ELSE <<>>

\* Option::unwrap_or / Result::unwrap_or_default on an Option modelled as <<x>> or <<>>.
unwrap_or(opt, default) == IF opt = <<>> THEN default ELSE opt[1]

(***************************************************************************)
(* serde_json::Value.  One record shape for every variant: t is the        *)
(* variant, s a string's bytes, n a number (or a bool as 0/1), m an        *)
(* object's members [k, v] in key order (serde_json's Map is a BTreeMap).  *)
(***************************************************************************)
JNull == [t |-> "null", s |-> <<>>, n |-> 0, m |-> <<>>]
JBool(b) == [t |-> "bool", s |-> <<>>, n |-> IF b THEN 1 ELSE 0, m |-> <<>>]
JNum(k) == [t |-> "number", s |-> <<>>, n |-> k, m |-> <<>>]
JStr(bs) == [t |-> "string", s |-> bs, n |-> 0, m |-> <<>>]
JObj(members) == [t |-> "object", s |-> <<>>, n |-> 0, m |-> members]

\* serde_json::json!({ key: value }) with one member.
JObj1(key, value) == JObj(<<[k |-> key, v |-> value]>>)

\* The member of an object under a key, as an Option.
RECURSIVE Member(_, _)
Member(members, key) ==
  IF members = <<>> THEN <<>>
  ELSE IF Head(members).k = key THEN <<Head(members).v>>
  ELSE Member(Tail(members), key)

\* Byte-wise order of two strings (the order of BTreeMap<String, _>).
RECURSIVE BytesLess(_, _)
BytesLess(a, b) ==
  IF b = <<>> THEN FALSE
  ELSE IF a = <<>> THEN TRUE
  ELSE IF Head(a) # Head(b) THEN Head(a) < Head(b)
  ELSE BytesLess(Tail(a), Tail(b))

\* Map::insert: a present key is replaced, a new one goes to its sorted place.
RECURSIVE MapInsert(_, _, _)
MapInsert(members, key, value) ==
  IF members = <<>> THEN <<[k |-> key, v |-> value]>>
  ELSE IF Head(members).k = key THEN <<[k |-> key, v |-> value]>> \o Tail(members)
  ELSE IF BytesLess(key, Head(members).k) THEN <<[k |-> key, v |-> value]>> \o members
  ELSE <<Head(members)>> \o MapInsert(Tail(members), key, value)

(***************************************************************************)
(* serde_json::to_vec: the compact serialization.                          *)
(***************************************************************************)
\* Decimal digits of a non-negative integer.
RECURSIVE Decimal(_)
Decimal(k) ==
  IF k < 10 THEN <<Code("0") + k>> ELSE Decimal(k \div 10) \o <<Code("0") + (k % 10)>>

\* One byte of a string inside quotes: '"' and '\' are escaped, control
\* bytes become \n, \t, \r, \b, \f or \u00XX, every other byte is itself.
EscapeByte(b) ==
  IF b = Code("\"") THEN Bytes(<<"\\", "\"">>)
  ELSE IF b = Code("\\") THEN Bytes(<<"\\", "\\">>)
  ELSE IF b = 10 THEN Bytes(<<"\\", "n">>)
  ELSE IF b = 9 THEN Bytes(<<"\\", "t">>)
  ELSE IF b = 13 THEN Bytes(<<"\\", "r">>)
  ELSE IF b = 8 THEN Bytes(<<"\\", "b">>)
  ELSE IF b = 12 THEN Bytes(<<"\\", "f">>)
  ELSE IF b < 32
       THEN Bytes(<<"\\", "u", "0", "0">>)
              \o <<Code(HexDigits[(b \div 16) + 1]), Code(HexDigits[(b % 16) + 1])>>
       ELSE <<b>>

\* The bytes up to the first one that needs an escape are written as they
\* are, then the escape, then the rest in the same way.
RECURSIVE Escape(_)
Escape(bs) ==
  With(FirstIndex(bs, LAMBDA i : EscapeByte(bs[i]) # <<bs[i]>>), LAMBDA i :
    IF i = 0 THEN bs
    ELSE SubSeq(bs, 1, i - 1) \o EscapeByte(bs[i]) \o Escape(Drop(bs, i)))

Quoted(bs) == <<Code("\"")>> \o Escape(bs) \o <<Code("\"")>>

RECURSIVE Serialize(_)
RECURSIVE SerializeMembers(_)
SerializeMembers(members) ==
  IF members = <<>> THEN <<>>
  ELSE Quoted(Head(members).k) \o <<Code(":")>> \o Serialize(Head(members).v)
         \o (IF Tail(members) = <<>> THEN <<>>
             ELSE <<Code(",")>> \o SerializeMembers(Tail(members)))

Serialize(v) ==
  CASE v.t = "null" -> Bytes(<<"n", "u", "l", "l">>)
    [] v.t = "bool" -> IF v.n = 1 THEN Bytes(<<"t", "r", "u", "e">>)
                       ELSE Bytes(<<"f", "a", "l", "s", "e">>)
    [] v.t = "number" -> Decimal(v.n)
    [] v.t = "string" -> Quoted(v.s)
    [] v.t = "object" -> <<Code("{")>> \o SerializeMembers(v.m) \o <<Code("}")>>

\* Result<Vec<u8>, Error> as an Option.  Writing a Value into a Vec has no
\* failing case: every key is a string and the writer cannot fail.
to_vec(v) == With(v, LAMBDA x : <<Serialize(x)>>)

(***************************************************************************)
(* serde_json::from_slice, for the JSON of the modelled requests: null,    *)
(* booleans, non-negative integers, strings (with the two-character        *)
(* escapes) and objects.                                                   *)
(***************************************************************************)
IsWs(b) == b = 32 \/ b = 10 \/ b = 9 \/ b = 13
IsDigit(b) == b >= 48 /\ b <= 57

RECURSIVE SkipWs(_)
SkipWs(bs) == IF bs # <<>> /\ IsWs(Head(bs)) THEN SkipWs(Tail(bs)) ELSE bs

HasPrefix(bs, p) == Len(bs) >= Len(p) /\ SubSeq(bs, 1, Len(p)) = p

ParseFail == [ok |-> FALSE, v |-> JNull, rest |-> <<>>]
ParseOk(value, rest) == [ok |-> TRUE, v |-> value, rest |-> rest]

\* The byte a two-character escape stands for, as an Option.
Unescape(b) ==
  IF b = Code("\"") \/ b = Code("\\") \/ b = Code("/") THEN <<b>>
  ELSE IF b = Code("n") THEN <<10>>
  ELSE IF b = Code("t") THEN <<9>>
  ELSE IF b = Code("r") THEN <<13>>
  ELSE IF b = Code("b") THEN <<8>>
  ELSE IF b = Code("f") THEN <<12>>
  ELSE <<>>

\* Whether a byte ends a run of plain string bytes: the closing quote, a
\* backslash or a control byte.
EndsRun(b) == b = Code("\"") \/ b = Code("\\") \/ b < 32

\* The rest of a string after its opening quote: the plain bytes up to the
\* first quote, backslash or control byte are taken as they are; a quote
\* closes the string, a backslash starts an escape, a control byte is an
\* error, and so is the end of the input.
RECURSIVE ParseString(_, _)
ParseString(bs, acc) ==
  With(FirstIndex(bs, LAMBDA i : EndsRun(bs[i])), LAMBDA i :
    IF i = 0 THEN ParseFail
    ELSE IF bs[i] = Code("\"")
         THEN ParseOk(JStr(acc \o SubSeq(bs, 1, i - 1)), Drop(bs, i))
    ELSE IF bs[i] = Code("\\")
         THEN IF i + 1 > Len(bs) \/ Unescape(bs[i + 1]) = <<>> THEN ParseFail
              ELSE ParseString(Drop(bs, i + 1),
                               acc \o SubSeq(bs, 1, i - 1) \o Unescape(bs[i + 1]))
    ELSE ParseFail)

RECURSIVE ParseDigits(_, _)
ParseDigits(bs, acc) ==
  IF bs # <<>> /\ IsDigit(Head(bs))
  THEN ParseDigits(Tail(bs), 10 * acc + (Head(bs) - 48))
  ELSE ParseOk(JNum(acc), bs)

\* A number: 0, or a digit 1-9 and more digits; a digit after a leading 0 is an error.
ParseNumber(bs) ==
  IF Head(bs) = Code("0")
  THEN IF Len(bs) >= 2 /\ IsDigit(bs[2]) THEN ParseFail ELSE ParseOk(JNum(0), Tail(bs))
  ELSE ParseDigits(bs, 0)

RECURSIVE ParseValue(_)
RECURSIVE ParseMembers(_, _)
\* The members of an object, from its first key's opening quote on.
ParseMembers(bs, acc) ==
  IF bs = <<>> \/ Head(bs) # Code("\"") THEN ParseFail
  ELSE LET key == ParseString(Tail(bs), <<>>)
           afterKey == SkipWs(key.rest)
       IN  IF ~key.ok \/ afterKey = <<>> \/ Head(afterKey) # Code(":") THEN ParseFail
           ELSE LET val == ParseValue(Tail(afterKey))
                    afterVal == SkipWs(val.rest)
                    members == MapInsert(acc, key.v.s, val.v)
                IN  IF ~val.ok \/ afterVal = <<>> THEN ParseFail
                    ELSE IF Head(afterVal) = Code("}")
                         THEN ParseOk(JObj(members), Tail(afterVal))
                    ELSE IF Head(afterVal) = Code(",")
                         THEN ParseMembers(SkipWs(Tail(afterVal)), members)
                    ELSE ParseFail

ParseValue(input) ==
  LET bs == SkipWs(input)
  IN  IF bs = <<>> THEN ParseFail
      ELSE IF HasPrefix(bs, Bytes(<<"n", "u", "l", "l">>)) THEN ParseOk(JNull, Drop(bs, 4))
      ELSE IF HasPrefix(bs, Bytes(<<"t", "r", "u", "e">>))
           THEN ParseOk(JBool(TRUE), Drop(bs, 4))
      ELSE IF HasPrefix(bs, Bytes(<<"f", "a", "l", "s", "e">>))
           THEN ParseOk(JBool(FALSE), Drop(bs, 5))
      ELSE IF Head(bs) = Code("\"") THEN ParseString(Tail(bs), <<>>)
      ELSE IF IsDigit(Head(bs)) THEN ParseNumber(bs)
      ELSE IF Head(bs) = Code("{")
           THEN LET inner == SkipWs(Tail(bs))
                IN  IF inner # <<>> /\ Head(inner) = Code("}")
                    THEN ParseOk(JObj(<<>>), Tail(inner))
                    ELSE ParseMembers(inner, <<>>)
      ELSE ParseFail

\* Result<Value, Error> as an Option: the whole input must be one value.
from_slice(bs) ==
  LET r == ParseValue(bs)
  IN  IF r.ok /\ SkipWs(r.rest) = <<>> THEN <<r.v>> ELSE <<>>

(***************************************************************************)
(* Result<Value, String>, the output of every handler and of dispatch.     *)
(***************************************************************************)
Ok(value) == [ok |-> TRUE, v |-> value, e |-> <<>>]
Err(msg) == [ok |-> FALSE, v |-> JNull, e |-> msg]

(***************************************************************************)
(* serde_json::from_value into the argument types of the commands, with    *)
(* serde's error descriptions (a from_value error carries no position).    *)
(***************************************************************************)
\* serde::de::Unexpected, displayed.
Unexpected(v) ==
  CASE v.t = "null" -> Bytes(<<"n", "u", "l", "l">>)
    [] v.t = "bool" -> Bytes(<<"b", "o", "o", "l", "e", "a", "n", " ", "<60>">>)
                         \o (IF v.n = 1 THEN Bytes(<<"t", "r", "u", "e">>) ELSE Bytes(<<"f", "a", "l", "s", "e">>))
                         \o Bytes(<<"<60>">>)
    [] v.t = "number" -> Bytes(<<"i", "n", "t", "e", "g", "e", "r", " ", "<60>">>) \o Decimal(v.n) \o Bytes(<<"<60>">>)
    [] v.t = "string" -> Bytes(<<"s", "t", "r", "i", "n", "g", " ">>) \o Quoted(v.s)
    [] v.t = "object" -> Bytes(<<"m", "a", "p">>)

InvalidType(v, expected) ==
  Bytes(<<"i", "n", "v", "a", "l", "i", "d", " ", "t", "y", "p", "e", ":", " ">>) \o Unexpected(v) \o Bytes(<<",", " ", "e", "x", "p", "e", "c", "t", "e", "d", " ">>) \o expected

\* A decoded argument: ok with the value x, or the error's description e.
Decoded(x) == [ok |-> TRUE, x |-> x, e |-> <<>>]
\* A decode failure that loses the error's description.
DecodeError_NoDescription(msg) == [ok |-> FALSE, x |-> <<>>, e |-> <<>>]
DecodeError(msg) == [ok |-> FALSE, x |-> <<>>, e |-> msg]

\* #[derive(Deserialize)] struct GreetArgs { name: String }; x is the name.
from_value_GreetArgs(v) ==
  IF v.t # "object" THEN DecodeError(InvalidType(v, Bytes(<<"s", "t", "r", "u", "c", "t", " ", "G", "r", "e", "e", "t", "A", "r", "g", "s">>)))
  ELSE LET name == Member(v.m, Bytes(<<"n", "a", "m", "e">>))
       IN  IF name = <<>> THEN DecodeError(Bytes(<<"m", "i", "s", "s", "i", "n", "g", " ", "f", "i", "e", "l", "d", " ", "<60>", "n", "a", "m", "e", "<60>">>))
           ELSE IF name[1].t # "string"
                THEN DecodeError(InvalidType(name[1], Bytes(<<"a", " ", "s", "t", "r", "i", "n", "g">>)))
           ELSE Decoded(name[1].s)

\* u32; x is the number's decimal text.
from_value_u32(v) ==
  IF v.t # "number" THEN DecodeError(InvalidType(v, Bytes(<<"u", "3", "2">>)))
  ELSE Decoded(Decimal(v.n))

(***************************************************************************)
(* The command functions of the examples, each with its return value as    *)
(* serde_json::to_value gives it.                                          *)
(***************************************************************************)
\* simple.rs: fn greet(args: GreetArgs) -> GreetReply
greet(name) ==
  JObj1(Bytes(<<"m", "e", "s", "s", "a", "g", "e">>), JStr(Bytes(<<"H", "e", "l", "l", "o", ",", " ">>) \o name \o Bytes(<<"!">>)))

\* trait.rs: MyCommands::greet
mycommands_greet(name) ==
  JObj1(Bytes(<<"m", "e", "s", "s", "a", "g", "e">>), JStr(Bytes(<<"h", "i", " ">>) \o name))

\* trait.rs: MyCommands::fetch, a Result<String, String> that is always Ok
mycommands_fetch(id) ==
  JObj1(Bytes(<<"O", "k">>), JStr(Bytes(<<"F", "e", "t", "c", "h", "e", "d", " ">>) \o id))

\* A command of fetch's shape whose function fails for one id:
\* fn find(id: u32) -> Result<String, String>, Err("no such id") for 0.
mycommands_find(id) ==
  IF id = Bytes(<<"0">>) THEN JObj1(Bytes(<<"E", "r", "r">>), JStr(Bytes(<<"n", "o", " ", "s", "u", "c", "h", " ", "i", "d">>)))
  ELSE JObj1(Bytes(<<"O", "k">>), JStr(Bytes(<<"F", "o", "u", "n", "d", " ">>) \o id))

(***************************************************************************)
(* Handlers.  A handler makes a future; Ready(r) completes with r at its   *)
(* first poll, Suspend(r) is pending at the first poll and completes with  *)
(* r once woken, Never is pending forever and Panic unwinds at the poll.   *)
(***************************************************************************)
Ready(r) == [kind |-> "ready", result |-> r]
Suspend(r) == [kind |-> "suspend", result |-> r]
Never == [kind |-> "never", result |-> Err(<<>>)]
Panic == [kind |-> "panic", result |-> Err(<<>>)]

\* An async wrapper that awaits the function before it looks at the decoding.
MacroHandler_AsyncSkipsDecodeError(decoded, ret, suspends) ==
  IF suspends THEN Suspend(Ok(ret))
  ELSE IF ~decoded.ok THEN Ready(Err(decoded.e))
  ELSE Ready(Ok(ret))

\* A wrapper that turns an Err the function returned into the handler's Err.
MacroHandler_FlattensResult(decoded, ret, suspends) ==
  IF ~decoded.ok THEN Ready(Err(decoded.e))
  ELSE IF Member(ret.m, Bytes(<<"E", "r", "r">>)) # <<>> THEN Ready(Err(Member(ret.m, Bytes(<<"E", "r", "r">>))[1].s))
  ELSE IF suspends THEN Suspend(Ok(ret))
  ELSE Ready(Ok(ret))

\* The handler #[command] generates for a function of one typed argument:
\* decode the arguments or resolve to Err(description), call the function
\* (awaiting it when async: suspends tells whether that await is ever
\* pending), serialize what it returns.
MacroHandler(decoded, ret, suspends) ==
  IF ~decoded.ok THEN Ready(Err(decoded.e))
  ELSE IF suspends THEN Suspend(Ok(ret))
  ELSE Ready(Ok(ret))

\* The future of each registered handler on given arguments.
HandlerFuture(h, args) ==
  CASE h = "greet" ->
         With(from_value_GreetArgs(args), LAMBDA d : MacroHandler(d, greet(d.x), FALSE))
    [] h = "mycommands_greet" ->
         With(from_value_GreetArgs(args), LAMBDA d :
           MacroHandler(d, mycommands_greet(d.x), FALSE))
    [] h = "mycommands_fetch" ->
         With(from_value_u32(args), LAMBDA d :
           MacroHandler(d, mycommands_fetch(d.x), FALSE))
    [] h = "mycommands_find" ->
         With(from_value_u32(args), LAMBDA d :
           MacroHandler(d, mycommands_find(d.x), FALSE))
    \* an async command that computes what greet does after a pending await
    [] h = "greet_later" ->
         With(from_value_GreetArgs(args), LAMBDA d : MacroHandler(d, greet(d.x), TRUE))
    \* hand-written fn(Value) -> BoxFuture handlers
    [] h = "fail" -> Ready(Err(Bytes(<<"b", "o", "o", "m">>)))
    \* fn(Value) -> BoxFuture that resolves to its arguments
    [] h = "echo" -> Ready(Ok(args))
    [] h = "hang" -> Never
    [] h = "crash" -> Panic

\* The commands inventory collected, in the order inventory::iter yields them.
Registry ==
  << [name |-> Bytes(<<"g", "r", "e", "e", "t">>), handler |-> "greet"],
     [name |-> Bytes(<<"m", "y", "c", "o", "m", "m", "a", "n", "d", "s", "/", "g", "r", "e", "e", "t">>), handler |-> "mycommands_greet"],
     [name |-> Bytes(<<"m", "y", "c", "o", "m", "m", "a", "n", "d", "s", "/", "f", "e", "t", "c", "h">>), handler |-> "mycommands_fetch"],
     [name |-> Bytes(<<"g", "r", "e", "e", "t">>), handler |-> "mycommands_greet"],
     [name |-> Bytes(<<"l", "a", "t", "e", "r">>), handler |-> "greet_later"],
     [name |-> Bytes(<<"f", "a", "i", "l">>), handler |-> "fail"],
     [name |-> Bytes(<<"h", "a", "n", "g">>), handler |-> "hang"],
     [name |-> Bytes(<<"c", "r", "a", "s", "h">>), handler |-> "crash"],
     [name |-> Bytes(<<"e", "c", "h", "o">>), handler |-> "echo"],
     [name |-> Bytes(<<"m", "y", "c", "o", "m", "m", "a", "n", "d", "s", "/", "f", "i", "n", "d">>), handler |-> "mycommands_find"] >>

(***************************************************************************)
(* handle_command.                                                         *)
(***************************************************************************)
\* A normalization that falls back to the empty name (unwrap_or_default).
Canonical_EmptyOnFailure(raw_cmd) ==
  With(trim_matches(raw_cmd, SLASH), LAMBDA cmd :
    With(percent_decode_str(cmd), LAMBDA decoded :
      unwrap_or(decode_utf8(decoded), <<>>)))

\* A normalization that trims the leading slashes only.
Canonical_LeadingOnly(raw_cmd) ==
  With(trim_start_matches(raw_cmd, SLASH), LAMBDA cmd :
    With(percent_decode_str(cmd), LAMBDA decoded :
      unwrap_or(decode_utf8(decoded), cmd)))

\* Steps 1 and 2: trim the slashes, then percent-decode, keeping the trimmed
\* text when the decoded bytes are not UTF-8.
Canonical(raw_cmd) ==
  With(trim_matches(raw_cmd, SLASH), LAMBDA cmd :
    With(percent_decode_str(cmd), LAMBDA decoded :
      unwrap_or(decode_utf8(decoded), cmd)))

\* A loop that takes the first command whose name the looked-up name starts with.
LookupFrom_Prefix(reg, cmd, i) ==
  LET hits == { j \in i..Len(reg) :
                  /\ Len(reg[j].name) <= Len(cmd)
                  /\ SubSeq(cmd, 1, Len(reg[j].name)) = reg[j].name }
  IN  IF hits = {} THEN 0 ELSE CHOOSE j \in hits : \A k \in hits : j <= k

\* Step 3: the loop over inventory::iter from entry i on; the index of the
\* first command of that name, 0 when there is none.
RECURSIVE LookupFrom(_, _, _)
LookupFrom(reg, cmd, i) ==
  IF i > Len(reg) THEN 0
  ELSE IF reg[i].name = cmd THEN i
  ELSE LookupFrom(reg, cmd, i + 1)

\* A lookup that lets a later registration override an earlier one.
Lookup_LastWins(reg, cmd) ==
  LET hits == { j \in 1..Len(reg) : reg[j].name = cmd }
  IN  IF hits = {} THEN 0 ELSE CHOOSE j \in hits : \A k \in hits : k <= j

Lookup(reg, cmd) == LookupFrom(reg, cmd, 1)

\* Step 4: the error of an unknown command.
UnknownCommand(cmd) == Err(Bytes(<<"U", "n", "k", "n", "o", "w", "n", " ", "c", "o", "m", "m", "a", "n", "d", ":", " ">>) \o cmd)

\* A dispatch whose unknown-command error names the raw name.
handle_command_RawNameInError(reg, raw_cmd, args) ==
  With(Canonical(raw_cmd), LAMBDA cmd :
    With(Lookup(reg, cmd), LAMBDA idx :
      [ name |-> cmd,
        idx |-> idx,
        fut |-> IF idx # 0 THEN HandlerFuture(reg[idx].handler, args)
                ELSE Ready(UnknownCommand(raw_cmd)) ]))

\* The call: the name looked up, the command found (idx, 0 for none) and
\* the future returned.
handle_command(reg, raw_cmd, args) ==
  With(Canonical(raw_cmd), LAMBDA cmd :
    With(Lookup(reg, cmd), LAMBDA idx :
      [ name |-> cmd,
        idx |-> idx,
        fut |-> IF idx # 0 THEN HandlerFuture(reg[idx].handler, args)
                ELSE Ready(UnknownCommand(cmd)) ]))

(***************************************************************************)
(* The protocol handler of use_wry_cmd_protocol!: its pure parts.          *)
(***************************************************************************)
NO_CONTENT == 204
METHOD_NOT_ALLOWED == 405
OK == 200

\* A preflight response without Access-Control-Allow-Headers.
PreflightResponse_NoAllowHeaders ==
  [ status |-> NO_CONTENT,
    headers |-> << <<"Access-Control-Allow-Origin", "*">>,
                   <<"Access-Control-Allow-Methods", "POST, OPTIONS">> >>,
    body |-> <<>> ]

\* The response to a CORS preflight.
PreflightResponse ==
  [ status |-> NO_CONTENT,
    headers |-> << <<"Access-Control-Allow-Origin", "*">>,
                   <<"Access-Control-Allow-Methods", "POST, OPTIONS">>,
                   <<"Access-Control-Allow-Headers", "Content-Type">> >>,
    body |-> <<>> ]

\* A 405 response without the CORS header.
MethodNotAllowedResponse_NoCors ==
  [ status |-> METHOD_NOT_ALLOWED,
    headers |-> << <<"Allow", "POST, OPTIONS">> >>,
    body |-> Bytes(<<"M", "e", "t", "h", "o", "d", " ", "N", "o", "t", " ", "A", "l", "l", "o", "w", "e", "d">>) ]

\* The response to a method that is neither OPTIONS nor POST.
MethodNotAllowedResponse ==
  [ status |-> METHOD_NOT_ALLOWED,
    headers |-> << <<"Allow", "POST, OPTIONS">>,
                   <<"Access-Control-Allow-Origin", "*">> >>,
    body |-> Bytes(<<"M", "e", "t", "h", "o", "d", " ", "N", "o", "t", " ", "A", "l", "l", "o", "w", "e", "d">>) ]

\* A combination that leaves out the separator.
BuildCmd_NoSeparator(uri) ==
  unwrap_or(uri.authority, <<>>)
    \o trim_start_matches(unwrap_or(uri.path_and_query, <<>>), SLASH)

\* The command name of a URI: authority and path, joined.
BuildCmd(uri) ==
  LET host == unwrap_or(uri.authority, <<>>)
      path == trim_start_matches(unwrap_or(uri.path_and_query, <<>>), SLASH)
  IN  IF host = <<>> THEN path
      ELSE IF path = <<>> THEN host
      ELSE host \o <<SLASH>> \o path

\* Arguments that default to the empty object.
ParseArgs_EmptyObject(body) == unwrap_or(from_slice(body), JObj(<<>>))

\* The arguments: the body as JSON, Value::default() when it is none.
ParseArgs(body) == unwrap_or(from_slice(body), JNull)

\* An envelope that wraps the Ok value too.
ResponseValue_WrapsOk(result_json) ==
  IF result_json.ok THEN JObj1(Bytes(<<"r", "e", "s", "u", "l", "t">>), result_json.v)
  ELSE JObj1(Bytes(<<"e", "r", "r", "o", "r">>), JStr(result_json.e))

\* Ok(v) is v itself, Err(e) becomes {"error": e}.
ResponseValue(result_json) ==
  IF result_json.ok THEN result_json.v
  ELSE JObj1(Bytes(<<"e", "r", "r", "o", "r">>), JStr(result_json.e))

\* A response that gives up when the body could not be encoded.
ResponseWith_FailsOnEncodeError(encoded) ==
  IF encoded = <<>>
  THEN [ status |-> 500, headers |-> <<>>, body |-> <<>> ]
  ELSE [ status |-> OK,
         headers |-> << <<"Content-Type", "application/json">>,
                        <<"Access-Control-Allow-Origin", "*">> >>,
         body |-> encoded[1] ]

\* The response around what the encoder returned: Ok(bytes) or an Err,
\* replaced by the empty buffer (unwrap_or_default).
ResponseWith(encoded) ==
  [ status |-> OK,
    headers |-> << <<"Content-Type", "application/json">>,
                   <<"Access-Control-Allow-Origin", "*">> >>,
    body |-> unwrap_or(encoded, <<>>) ]

\* A response whose status tells the failure: 500 after Err.
PostResponse_ErrorStatus(result_json) ==
  With(to_vec(ResponseValue(result_json)), LAMBDA body :
    [ status |-> IF result_json.ok THEN OK ELSE 500,
      headers |-> << <<"Content-Type", "application/json">>,
                     <<"Access-Control-Allow-Origin", "*">> >>,
      body |-> unwrap_or(body, <<>>) ])

\* The response of the worker to a dispatch result.
PostResponse(result_json) ==
  With(to_vec(ResponseValue(result_json)), LAMBDA body : ResponseWith(body))

(***************************************************************************)
(* The requests the transport may deliver.                                 *)
(***************************************************************************)
\* http::Uri: authority() and path_and_query().map(|pq| pq.path()), as Options.
\* A URI with a scheme and an authority has the path "/" when none is written.
Uri(authority, path) == [authority |-> authority, path_and_query |-> <<path>>]

Request(method, uri, body) == [method |-> method, uri |-> uri, body |-> body]

AliceBody == Bytes(<<"{", "\"", "n", "a", "m", "e", "\"", ":", "\"", "A", "l", "i", "c", "e", "\"", "}">>)
BobBody == Bytes(<<"{", " ", "\"", "n", "a", "m", "e", "\"", " ", ":", " ", "\"", "B", "o", "b", "\"", " ", "}">>)

Inbound ==
  { Request("OPTIONS", Uri(<<Bytes(<<"g", "r", "e", "e", "t">>)>>, Bytes(<<"/">>)), <<>>),
    Request("GET", Uri(<<Bytes(<<"g", "r", "e", "e", "t">>)>>, Bytes(<<"/">>)), AliceBody),
    Request("DELETE", Uri(<<Bytes(<<"m", "y", "c", "o", "m", "m", "a", "n", "d", "s">>)>>, Bytes(<<"/", "g", "r", "e", "e", "t">>)), <<>>),
    Request("POST", Uri(<<Bytes(<<"g", "r", "e", "e", "t">>)>>, Bytes(<<"/">>)), AliceBody),
    Request("POST", Uri(<<Bytes(<<"g", "r", "e", "e", "t">>)>>, Bytes(<<"/">>)), <<>>),
    Request("POST", Uri(<<Bytes(<<"n", "o", "p", "e">>)>>, Bytes(<<"/">>)), Bytes(<<"{", "}">>)),
    Request("POST", Uri(<<Bytes(<<"x">>)>>, Bytes(<<"/", "n", "%", "6", "F", "p", "e", "/">>)), Bytes(<<"n", "o", "t", " ", "j", "s", "o", "n">>)),
    Request("POST", Uri(<<Bytes(<<"m", "y", "c", "o", "m", "m", "a", "n", "d", "s">>)>>, Bytes(<<"/", "g", "r", "e", "e", "t", "/">>)), BobBody),
    Request("POST", Uri(<<Bytes(<<"m", "y", "c", "o", "m", "m", "a", "n", "d", "s">>)>>, Bytes(<<"/", "f", "e", "t", "c", "h">>)), Bytes(<<"7">>)),
    Request("POST", Uri(<<Bytes(<<"l", "a", "t", "e", "r">>)>>, Bytes(<<"/">>)), AliceBody),
    Request("POST", Uri(<<Bytes(<<"f", "a", "i", "l">>)>>, Bytes(<<"/">>)), Bytes(<<"n", "u", "l", "l">>)),
    Request("POST", Uri(<<Bytes(<<"h", "a", "n", "g">>)>>, Bytes(<<"/">>)), Bytes(<<"n", "u", "l", "l">>)),
    Request("POST", Uri(<<Bytes(<<"c", "r", "a", "s", "h">>)>>, Bytes(<<"/">>)), Bytes(<<"n", "u", "l", "l">>)) }

(***************************************************************************)
(* State.                                                                  *)
(***************************************************************************)
Reqs == 1..MaxRequests

VARIABLES
  registry,   \* the commands inventory holds
  request,    \* request[r]: <<the request>> once the transport delivered it
  job,        \* job[r]: <<[cmd, args]>>, what the spawned closure captured
  worker,     \* worker[r]: where the worker thread of request r is
  looked,     \* looked[r]: the names handle_command looked up for r
  invoked,    \* invoked[r]: the handler calls made for r, [idx, args] each
  fut,        \* fut[r]: <<the future handle_command returned>>
  result,     \* result[r]: <<result_json>>, what block_on returned
  responses,  \* responses[r]: what the responder of r was given, in order
  raw,        \* name resolution alone: the raw command name
  stage,      \* name resolution alone: "raw", "resolved" or "again"
  name        \* name resolution alone: the names resolved so far

vars ==
  << registry, request, job, worker, looked, invoked, fut, result, responses,
     raw, stage, name >>

protocolVars == << registry, request, job, worker, looked, invoked, fut, result, responses >>
resolveVars == << raw, stage, name >>

Init ==
  /\ registry = Registry
  /\ request = [r \in Reqs |-> <<>>]
  /\ job = [r \in Reqs |-> <<>>]
  /\ worker = [r \in Reqs |-> "none"]
  /\ looked = [r \in Reqs |-> <<>>]
  /\ invoked = [r \in Reqs |-> <<>>]
  /\ fut = [r \in Reqs |-> <<>>]
  /\ result = [r \in Reqs |-> <<>>]
  /\ responses = [r \in Reqs |-> <<>>]
  /\ raw = <<>>
  /\ stage = "raw"
  /\ name = <<>>

(***************************************************************************)
(* The protocol handler, run by the transport on its own thread for each   *)
(* request.                                                                *)
(***************************************************************************)
\* The early branches without the return that ends the OPTIONS branch.
EarlyResponses_NoReturn(method) ==
  (IF method = "OPTIONS" THEN <<PreflightResponse>> ELSE <<>>)
    \o (IF method # "POST" THEN <<MethodNotAllowedResponse>> ELSE <<>>)

\* What the two early branches give the responder before they return.
EarlyResponses(method) ==
  IF method = "OPTIONS" THEN <<PreflightResponse>>
  ELSE IF method # "POST" THEN <<MethodNotAllowedResponse>>
  ELSE <<>>

\* Control reaching std::thread::spawn without the 405 branch.
Spawns_AnyNonOptions(method) == method # "OPTIONS"

\* Whether control reaches std::thread::spawn.
Spawns(method) == method # "OPTIONS" /\ method = "POST"

\* A protocol handler that calls handle_command and block_on itself, without
\* a thread.
use_wry_cmd_protocol_Inline(r, req) ==
  /\ request[r] = <<>>
  /\ \A q \in Reqs : q < r => request[q] # <<>>
  /\ request' = [request EXCEPT ![r] = <<req>>]
  /\ responses' = [responses EXCEPT ![r] = @ \o EarlyResponses(req.method)]
  /\ IF Spawns(req.method)
     THEN \E call \in {handle_command(registry, BuildCmd(req.uri), ParseArgs(req.body))} :
            /\ job' = [job EXCEPT ![r] =
                         <<[cmd |-> BuildCmd(req.uri), args |-> ParseArgs(req.body)]>>]
            /\ looked' = [looked EXCEPT ![r] = Append(@, call.name)]
            /\ invoked' = [invoked EXCEPT ![r] =
                             IF call.idx # 0
                             THEN Append(@, [idx |-> call.idx, args |-> ParseArgs(req.body)])
                             ELSE @]
            /\ fut' = [fut EXCEPT ![r] = <<call.fut>>]
            /\ worker' = [worker EXCEPT ![r] =
                            CASE call.fut.kind = "ready" -> "ready"
                              [] call.fut.kind = "panic" -> "panicked"
                              [] OTHER -> "pending"]
            /\ result' = [result EXCEPT ![r] =
                            IF call.fut.kind = "ready" THEN <<call.fut.result>> ELSE @]
     ELSE UNCHANGED <<job, worker, looked, invoked, fut, result>>
  /\ UNCHANGED <<registry, resolveVars>>

use_wry_cmd_protocol(r, req) ==
  /\ request[r] = <<>>
  /\ \A q \in Reqs : q < r => request[q] # <<>>
  /\ request' = [request EXCEPT ![r] = <<req>>]
  /\ responses' = [responses EXCEPT ![r] = @ \o EarlyResponses(req.method)]
  /\ IF Spawns(req.method)
     THEN /\ job' = [job EXCEPT ![r] =
                       <<[cmd |-> BuildCmd(req.uri), args |-> ParseArgs(req.body)]>>]
          /\ worker' = [worker EXCEPT ![r] = "spawned"]
     ELSE UNCHANGED <<job, worker>>
  /\ UNCHANGED <<registry, looked, invoked, fut, result, resolveVars>>

(***************************************************************************)
(* The worker thread of a POST request.                                    *)
(***************************************************************************)
\* Where the first poll of block_on leaves the thread.
AfterPoll(kind) ==
  CASE kind = "ready" -> "ready"
    [] kind = "suspend" -> "pending"
    [] kind = "never" -> "pending"
    [] kind = "panic" -> "panicked"

\* A block_on that loses the wake-up of a pending future.
Wakes_Never(kind) == FALSE

\* Whether a pending future is ever woken.
Wakes(kind) == kind = "suspend"

\* A worker that calls the handler once more than handle_command does.
WorkerRun_CallsTwice(r) ==
  /\ worker[r] = "spawned"
  /\ \E call \in {handle_command(registry, job[r][1].cmd, job[r][1].args)} :
       /\ looked' = [looked EXCEPT ![r] = Append(@, call.name)]
       /\ invoked' = [invoked EXCEPT ![r] =
                        IF call.idx # 0
                        THEN @ \o << [idx |-> call.idx, args |-> job[r][1].args],
                                     [idx |-> call.idx, args |-> job[r][1].args] >>
                        ELSE @]
       /\ fut' = [fut EXCEPT ![r] = <<call.fut>>]
       /\ worker' = [worker EXCEPT ![r] = AfterPoll(call.fut.kind)]
       /\ result' = [result EXCEPT ![r] =
                       IF AfterPoll(call.fut.kind) = "ready" THEN <<call.fut.result>> ELSE @]
  /\ UNCHANGED <<registry, request, job, responses, resolveVars>>

\* A worker that waits while the handler of another request is still running.
WorkerRun_WaitsForSlot(r) ==
  /\ worker[r] = "spawned"
  /\ \A q \in Reqs \ {r} : worker[q] \notin {"pending", "ready"}
  /\ \E call \in {handle_command(registry, job[r][1].cmd, job[r][1].args)} :
       /\ looked' = [looked EXCEPT ![r] = Append(@, call.name)]
       /\ invoked' = [invoked EXCEPT ![r] =
                        IF call.idx # 0
                        THEN Append(@, [idx |-> call.idx, args |-> job[r][1].args])
                        ELSE @]
       /\ fut' = [fut EXCEPT ![r] = <<call.fut>>]
       /\ worker' = [worker EXCEPT ![r] = AfterPoll(call.fut.kind)]
       /\ result' = [result EXCEPT ![r] =
                       IF AfterPoll(call.fut.kind) = "ready" THEN <<call.fut.result>> ELSE @]
  /\ UNCHANGED <<registry, request, job, responses, resolveVars>>

\* let fut = handle_command(&cmd, args); let result_json = block_on(fut):
\* the call, and the first poll of the future it returned.
WorkerRun(r) ==
  /\ worker[r] = "spawned"
  /\ \E call \in {handle_command(registry, job[r][1].cmd, job[r][1].args)} :
       /\ looked' = [looked EXCEPT ![r] = Append(@, call.name)]
       /\ invoked' = [invoked EXCEPT ![r] =
                        IF call.idx # 0
                        THEN Append(@, [idx |-> call.idx, args |-> job[r][1].args])
                        ELSE @]
       /\ fut' = [fut EXCEPT ![r] = <<call.fut>>]
       /\ worker' = [worker EXCEPT ![r] = AfterPoll(call.fut.kind)]
       /\ result' = [result EXCEPT ![r] =
                       IF AfterPoll(call.fut.kind) = "ready" THEN <<call.fut.result>> ELSE @]
  /\ UNCHANGED <<registry, request, job, responses, resolveVars>>

\* A completion that unregisters the command it called.
WorkerWake_DropsCommand(r) ==
  /\ worker[r] = "pending"
  /\ Wakes(fut[r][1].kind)
  /\ worker' = [worker EXCEPT ![r] = "ready"]
  /\ result' = [result EXCEPT ![r] = <<fut[r][1].result>>]
  /\ registry' = [i \in 1..(Len(registry) - 1) |->
                    IF i < invoked[r][1].idx THEN registry[i] ELSE registry[i + 1]]
  /\ UNCHANGED <<request, job, looked, invoked, fut, responses, resolveVars>>

\* block_on: the future is woken, polled again and completes.
WorkerWake(r) ==
  /\ worker[r] = "pending"
  /\ Wakes(fut[r][1].kind)
  /\ worker' = [worker EXCEPT ![r] = "ready"]
  /\ result' = [result EXCEPT ![r] = <<fut[r][1].result>>]
  /\ UNCHANGED <<registry, request, job, looked, invoked, fut, responses, resolveVars>>

\* A response built from a result slot the workers share: the first filled.
WorkerRespond_SharedResult(r) ==
  /\ worker[r] = "ready"
  /\ \E resp \in {PostResponse(result[CHOOSE q \in Reqs : result[q] # <<>>][1])} :
       responses' = [responses EXCEPT ![r] = Append(@, resp)]
  /\ worker' = [worker EXCEPT ![r] = "done"]
  /\ UNCHANGED <<registry, request, job, looked, invoked, fut, result, resolveVars>>

\* A worker that answers only after every earlier request was answered.
WorkerRespond_InArrivalOrder(r) ==
  /\ worker[r] = "ready"
  /\ \A q \in Reqs : q < r => responses[q] # <<>>
  /\ \E resp \in {PostResponse(result[r][1])} :
       responses' = [responses EXCEPT ![r] = Append(@, resp)]
  /\ worker' = [worker EXCEPT ![r] = "done"]
  /\ UNCHANGED <<registry, request, job, looked, invoked, fut, result, resolveVars>>

\* Build the response from result_json and give it to the responder.
WorkerRespond(r) ==
  /\ worker[r] = "ready"
  /\ \E resp \in {PostResponse(result[r][1])} :
       responses' = [responses EXCEPT ![r] = Append(@, resp)]
  /\ worker' = [worker EXCEPT ![r] = "done"]
  /\ UNCHANGED <<registry, request, job, looked, invoked, fut, result, resolveVars>>

Next ==
  \/ \E r \in Reqs : \E req \in Inbound : use_wry_cmd_protocol(r, req)
  \/ \E r \in Reqs : WorkerRun(r)
  \/ \E r \in Reqs : WorkerWake(r)
  \/ \E r \in Reqs : WorkerRespond(r)

Spec == Init /\ [][Next]_vars

\* Threads the operating system schedules keep running: every step of a
\* worker that can be taken is taken.  The transport need not deliver.
Fairness ==
  \A r \in Reqs :
    /\ WF_vars(WorkerRun(r))
    /\ WF_vars(WorkerWake(r))
    /\ WF_vars(WorkerRespond(r))

FairSpec == Spec /\ Fairness

(***************************************************************************)
(* Name resolution alone: the resolver applied to a URI, then to its own   *)
(* output.                                                                 *)
(***************************************************************************)
\* The canonical command name of a URI: what the protocol handler builds,
\* normalized as handle_command normalizes it.
Resolve(uri) == Canonical(BuildCmd(uri))

NameAlphabet == { Code("/"), Code("%"), Code("2"), Code("5"), Code("F"), Code("g") }

NamesUpTo(k) == UNION { [1..n -> NameAlphabet] : n \in 0..k }

RawPaths ==
  NamesUpTo(MaxNameLen)
    \cup { Bytes(<<"%", "2", "F", "g", "r", "e", "e", "t">>), Bytes(<<"%", "2", "5", "2", "F">>), Bytes(<<"%", "2", "F", "m", "y", "c", "o", "m", "m", "a", "n", "d", "s", "%", "2", "F", "g", "r", "e", "e", "t">>),
           Bytes(<<"/", "m", "y", "c", "o", "m", "m", "a", "n", "d", "s", "/", "g", "r", "e", "e", "t", "/">>), Bytes(<<"/", "/", "g", "r", "e", "e", "t", "/", "/">>), Bytes(<<"n", "o", "p", "e">>), Bytes(<<"%", "F", "F", "g">>) }

\* URIs with the authorities of the examples; the first has no path at all.
NamedUris ==
  { [authority |-> <<Bytes(<<"g", "r", "e", "e", "t">>)>>, path_and_query |-> <<>>],
    Uri(<<Bytes(<<"g", "r", "e", "e", "t">>)>>, Bytes(<<"/">>)),
    Uri(<<Bytes(<<"m", "y", "c", "o", "m", "m", "a", "n", "d", "s">>)>>, Bytes(<<"/", "g", "r", "e", "e", "t", "/">>)),
    Uri(<<Bytes(<<"m", "y", "c", "o", "m", "m", "a", "n", "d", "s">>)>>, Bytes(<<"/", "f", "e", "t", "c", "h">>)) }

RawUris ==
  { Uri(a, p) : a \in { <<>>, <<Bytes(<<"h">>)>> }, p \in RawPaths } \cup NamedUris

ResolveInit ==
  /\ registry = Registry
  /\ request = [r \in Reqs |-> <<>>]
  /\ job = [r \in Reqs |-> <<>>]
  /\ worker = [r \in Reqs |-> "none"]
  /\ looked = [r \in Reqs |-> <<>>]
  /\ invoked = [r \in Reqs |-> <<>>]
  /\ fut = [r \in Reqs |-> <<>>]
  /\ result = [r \in Reqs |-> <<>>]
  /\ responses = [r \in Reqs |-> <<>>]
  /\ raw \in RawUris
  /\ stage = "raw"
  /\ name = <<>>

\* The resolver on the URI.
ResolveName ==
  /\ stage = "raw"
  /\ name' = <<Resolve(raw)>>
  /\ stage' = "resolved"
  /\ UNCHANGED <<raw, protocolVars>>

\* The resolver on its own output, taken as the path of a URI without authority.
ResolveAgain ==
  /\ stage = "resolved"
  /\ name' = Append(name, Resolve(Uri(<<>>, name[1])))
  /\ stage' = "again"
  /\ UNCHANGED <<raw, protocolVars>>

ResolveNext == ResolveName \/ ResolveAgain

ResolveSpec == ResolveInit /\ [][ResolveNext]_vars

(***************************************************************************)
(* One request alone, over a wider set of names and bodies: the protocol   *)
(* handler and the worker of request 1, with nothing else in flight.       *)
(***************************************************************************)
ProbeNames ==
  { Bytes(<<"g", "r", "e", "e", "t">>), Bytes(<<"G", "r", "e", "e", "t">>), Bytes(<<"G", "R", "E", "E", "T">>), Bytes(<<"g", "r", "e", "e">>), Bytes(<<"r", "e", "e", "t">>), Bytes(<<"g", "r", "e", "e", "t", "x">>),
    Bytes(<<"g", "r", "%", "6", "5", "e", "t">>), Bytes(<<"/", "g", "r", "e", "e", "t", "/">>), Bytes(<<"l", "a", "t", "e", "r">>), Bytes(<<"e", "c", "h", "o">>), Bytes(<<"E", "c", "h", "o">>), Bytes(<<"f", "a", "i", "l">>),
    Bytes(<<"n", "o", "p", "e">>), Bytes(<<"%", "F", "F", "g">>), Bytes(<<"/", "%", "F", "F", "g", "/">>), Bytes(<<"g", "r", "%", "E", "9", "e", "t">>), Bytes(<<"m", "y", "c", "o", "m", "m", "a", "n", "d", "s">>),
    Bytes(<<"m", "y", "c", "o", "m", "m", "a", "n", "d", "s", "/", "g", "r", "e", "e", "t">>), Bytes(<<"m", "y", "c", "o", "m", "m", "a", "n", "d", "s", "/", "G", "r", "e", "e", "t">>), Bytes(<<"m", "y", "c", "o", "m", "m", "a", "n", "d", "s", "/", "f", "e", "t", "c", "h">>),
    Bytes(<<"m", "y", "c", "o", "m", "m", "a", "n", "d", "s", "/", "f", "i", "n", "d">>) }

ProbeBodies ==
  { <<>>, Bytes(<<"0">>), Bytes(<<"n", "o", "t", " ", "j", "s", "o", "n">>), Bytes(<<"{">>), Bytes(<<"n", "u", "l", "l">>), Bytes(<<"7">>), AliceBody,
    Bytes(<<"{", "\"", "e", "r", "r", "o", "r", "\"", ":", "\"", "x", "\"", "}">>), Bytes(<<"{", "\"", "e", "r", "r", "o", "r", "\"", ":", "7", "}">>) }

Probes ==
  { Request("POST", Uri(<<>>, n), b) : n \in ProbeNames, b \in ProbeBodies }

SingleNext ==
  \/ \E req \in Probes : use_wry_cmd_protocol(1, req)
  \/ WorkerRun(1)
  \/ WorkerWake(1)
  \/ WorkerRespond(1)

SingleSpec == Init /\ [][SingleNext]_vars

(***************************************************************************)
(* A synchronous command and an async one that compute the same function,  *)
(* side by side: requests for "greet" (fn) and "later" (async fn) over the *)
(* same bodies, well-formed arguments and not.                             *)
(***************************************************************************)
TwinNames == { Bytes(<<"g", "r", "e", "e", "t">>), Bytes(<<"l", "a", "t", "e", "r">>) }

TwinBodies == { AliceBody, BobBody, Bytes(<<"n", "u", "l", "l">>), Bytes(<<"{", "\"", "n", "a", "m", "e", "\"", ":", "7", "}">>) }

Twins == { Request("POST", Uri(<<n>>, <<SLASH>>), b) : n \in TwinNames, b \in TwinBodies }

TwinNext ==
  \/ \E r \in Reqs : \E req \in Twins : use_wry_cmd_protocol(r, req)
  \/ \E r \in Reqs : WorkerRun(r)
  \/ \E r \in Reqs : WorkerWake(r)
  \/ \E r \in Reqs : WorkerRespond(r)

TwinSpec == Init /\ [][TwinNext]_vars

(***************************************************************************)
(* One request alone, with serde_json::to_vec taken as its signature       *)
(* gives it, a call that returns Ok(bytes) or Err: the worker's last step  *)
(* with either outcome.                                                    *)
(***************************************************************************)
Encoded(v) == { to_vec(v), <<>> }

WorkerRespondEncoded(r) ==
  /\ worker[r] = "ready"
  /\ \E encoded \in Encoded(ResponseValue(result[r][1])) :
       responses' = [responses EXCEPT ![r] = Append(@, ResponseWith(encoded))]
  /\ worker' = [worker EXCEPT ![r] = "done"]
  /\ UNCHANGED <<registry, request, job, looked, invoked, fut, result, resolveVars>>

EncodeNext ==
  \/ \E req \in Probes : use_wry_cmd_protocol(1, req)
  \/ WorkerRun(1)
  \/ WorkerWake(1)
  \/ WorkerRespondEncoded(1)

EncodeSpec == Init /\ [][EncodeNext]_vars

(***************************************************************************)
(* A handler that never completes among other requests: the requests for   *)
(* "greet", "later" and "hang" of every method, under the fair scheduling  *)
(* of the workers.                                                         *)
(***************************************************************************)
StuckInbound ==
  { req \in Inbound : req.uri.authority \in { <<Bytes(<<"g", "r", "e", "e", "t">>)>>, <<Bytes(<<"l", "a", "t", "e", "r">>)>>, <<Bytes(<<"h", "a", "n", "g">>)>> } }

StuckNext ==
  \/ \E r \in Reqs : \E req \in StuckInbound : use_wry_cmd_protocol(r, req)
  \/ \E r \in Reqs : WorkerRun(r)
  \/ \E r \in Reqs : WorkerWake(r)
  \/ \E r \in Reqs : WorkerRespond(r)

StuckSpec == Init /\ [][StuckNext]_vars /\ Fairness

(***************************************************************************)
(* handle_command alone: a command name dispatched as it is and with       *)
(* slashes put before and after it.                                        *)
(***************************************************************************)
SlashNames ==
  NamesUpTo(MaxNameLen)
    \cup { Bytes(<<"g", "r", "e", "e", "t">>), Bytes(<<"G", "r", "e", "e", "t">>), Bytes(<<"n", "o", "p", "e">>), Bytes(<<"n", "%", "6", "F", "p", "e">>), Bytes(<<"g", "r", "%", "6", "5", "e", "t">>), Bytes(<<"%", "F", "F", "g">>),
           Bytes(<<"m", "y", "c", "o", "m", "m", "a", "n", "d", "s", "/", "g", "r", "e", "e", "t">>), Bytes(<<"m", "y", "c", "o", "m", "m", "a", "n", "d", "s", "/", "f", "e", "t", "c", "h">>), Bytes(<<"f", "a", "i", "l">>) }

Slashes == { <<>>, <<SLASH>>, <<SLASH, SLASH>> }

SlashArgs == { JNull, ParseArgs(AliceBody) }

SlashInit ==
  /\ registry = Registry
  /\ request = [r \in Reqs |-> <<>>]
  /\ job = [r \in Reqs |-> <<>>]
  /\ worker = [r \in Reqs |-> "none"]
  /\ looked = [r \in Reqs |-> <<>>]
  /\ invoked = [r \in Reqs |-> <<>>]
  /\ fut = [r \in Reqs |-> <<>>]
  /\ result = [r \in Reqs |-> <<>>]
  /\ responses = [r \in Reqs |-> <<>>]
  /\ raw \in SlashNames
  /\ stage = "raw"
  /\ name = <<>>

\* handle_command(raw, args) and handle_command(before + raw + after, args).
DispatchBoth ==
  /\ stage = "raw"
  /\ \E pre \in Slashes, post \in Slashes, args \in SlashArgs :
       name' = << [ raw_cmd |-> pre \o raw \o post,
                    plain |-> handle_command(registry, raw, args),
                    call |-> handle_command(registry, pre \o raw \o post, args) ] >>
  /\ stage' = "resolved"
  /\ UNCHANGED <<raw, protocolVars>>

SlashNext == DispatchBoth

SlashSpec == SlashInit /\ [][SlashNext]_vars

(***************************************************************************)
(* Vocabulary of the properties.                                           *)
(***************************************************************************)
Received(r) == request[r] # <<>>
Method(r) == request[r][1].method
Answered(r) == responses[r] # <<>>
Response(r) == responses[r][1]

HasHeader(resp, h, value) ==
  \E i \in 1..Len(resp.headers) : resp.headers[i] = <<h, value>>

\* A response a client can read: a status line the adapter knows, no body
\* with 204, and with 200 either a JSON document or the empty buffer.
WellFormed(resp) ==
  /\ resp.status \in {204, 405, 200}
  /\ resp.status = 204 => resp.body = <<>>
  /\ resp.status = 200 => (resp.body = <<>> \/ from_slice(resp.body) # <<>>)

\* The handler of r was called and its future never completes or panicked.
HandlerNeverCompletes(r) ==
  \/ worker[r] = "panicked"
  \/ worker[r] = "pending" /\ fut[r][1].kind = "never"

\* No command of the registry has that name.
Unregistered(cmd) == \A i \in 1..Len(registry) : registry[i].name # cmd

(***************************************************************************)
(* C1.  The responder of a request is invoked at most once, on every path  *)
(* of the protocol handler and under every interleaving of the requests.   *)
(***************************************************************************)
C1_RespondsAtMostOnce == \A r \in Reqs : Len(responses[r]) <= 1

\* Two requests in flight together, both answered, one of them by a worker.
C1_Witness ==
  \E r, q \in Reqs :
    /\ r # q
    /\ worker[r] = "done" /\ Len(responses[r]) = 1
    /\ Len(responses[q]) = 1

C3_Preflight ==
  \A r \in Reqs :
    (Received(r) /\ Method(r) = "OPTIONS") =>
      /\ Len(responses[r]) = 1
      /\ Response(r).status = 204
      /\ Response(r).body = <<>>
      /\ Len(Response(r).headers) = 3
      /\ HasHeader(Response(r), "Access-Control-Allow-Origin", "*")
      /\ HasHeader(Response(r), "Access-Control-Allow-Methods", "POST, OPTIONS")
      /\ HasHeader(Response(r), "Access-Control-Allow-Headers", "Content-Type")
      /\ job[r] = <<>>
      /\ looked[r] = <<>>
      /\ invoked[r] = <<>>
      /\ worker[r] = "none"

\* An OPTIONS request for a registered command was delivered.
C3_Witness ==
  \E r \in Reqs :
    /\ Received(r) /\ Method(r) = "OPTIONS"
    /\ ~Unregistered(Resolve(request[r][1].uri))
    /\ Answered(r)

(***************************************************************************)
(* C4.  A request whose method is neither POST nor OPTIONS is answered     *)
(* 405 with Allow: POST, OPTIONS, Access-Control-Allow-Origin: * and the   *)
(* body "Method Not Allowed"; no handler is called, even when the URI      *)
(* names a registered command.                                             *)
(***************************************************************************)
C4_MethodNotAllowed ==
  \A r \in Reqs :
    (Received(r) /\ Method(r) \notin {"POST", "OPTIONS"}) =>
      /\ Len(responses[r]) = 1
      /\ Response(r).status = 405
      /\ HasHeader(Response(r), "Allow", "POST, OPTIONS")
      /\ HasHeader(Response(r), "Access-Control-Allow-Origin", "*")
      /\ Text(Response(r).body) = "Method Not Allowed"
      /\ invoked[r] = <<>>
      /\ worker[r] = "none"

\* GET and DELETE requests for registered commands were both delivered.
C4_Witness ==
  \E r, q \in Reqs :
    /\ Received(r) /\ Method(r) = "GET"
    /\ Received(q) /\ Method(q) = "DELETE"
    /\ ~Unregistered(Resolve(request[r][1].uri))
    /\ ~Unregistered(Resolve(request[q][1].uri))

(***************************************************************************)
(* C5.  Every response to a POST request has status 200 and the header     *)
(* Content-Type: application/json, whether dispatch resolved to Ok or to   *)
(* Err (unknown command, argument decode failure, handler-reported error). *)
(***************************************************************************)
C5_PostIsAlways200 ==
  \A r \in Reqs :
    (Received(r) /\ Method(r) = "POST") =>
      \A i \in 1..Len(responses[r]) :
        /\ responses[r][i].status = 200
        /\ HasHeader(responses[r][i], "Content-Type", "application/json")

\* Two POST requests answered, one after an unknown command and one after
\* an Err of a handler that was called.
C5_Witness ==
  \E r, q \in Reqs :
    /\ Answered(r) /\ Method(r) = "POST" /\ invoked[r] = <<>> /\ ~result[r][1].ok
    /\ Answered(q) /\ Method(q) = "POST" /\ invoked[q] # <<>> /\ ~result[q][1].ok

(***************************************************************************)
(* C6.  Every response the adapter emits, on the 204, the 405 and the 200  *)
(* path, carries Access-Control-Allow-Origin: *.                           *)
(***************************************************************************)
C6_CorsOnEveryResponse ==
  \A r \in Reqs :
    \A i \in 1..Len(responses[r]) :
      HasHeader(responses[r][i], "Access-Control-Allow-Origin", "*")

\* A 405 and a 200 were emitted.
C6_Witness ==
  \E r, q \in Reqs :
    /\ Answered(r) /\ Response(r).status = 405
    /\ Answered(q) /\ Response(q).status = 200

(***************************************************************************)
(* C7.  Dispatching a name no command is registered under resolves to      *)
(* Err("Unknown command: " + name), name being the canonical name that     *)
(* was looked up; no handler is called, nothing panics, and the body of    *)
(* the POST response is {"error":"Unknown command: <name>"}.               *)
(***************************************************************************)
C7_UnknownCommand ==
  \A r \in Reqs :
    (looked[r] # <<>> /\ Unregistered(looked[r][1])) =>
      LET msg == Bytes(<<"U", "n", "k", "n", "o", "w", "n", " ", "c", "o", "m", "m", "a", "n", "d", ":", " ">>) \o looked[r][1]
      IN  /\ fut[r][1].kind = "ready"
          /\ ~fut[r][1].result.ok
          /\ fut[r][1].result.e = msg
          /\ invoked[r] = <<>>
          /\ worker[r] # "panicked"
          /\ result[r] # <<>> => result[r][1] = fut[r][1].result
          /\ Answered(r) =>
               /\ Response(r).body = Bytes(<<"{", "\"", "e", "r", "r", "o", "r", "\"", ":">>) \o Quoted(msg) \o Bytes(<<"}">>)
               /\ Text(job[r][1].cmd) = "nope" =>
                    Text(Response(r).body) = "{\"error\":\"Unknown command: nope\"}"
               /\ Text(job[r][1].cmd) = "x/n%6Fpe/" =>
                    Text(Response(r).body) = "{\"error\":\"Unknown command: x/nope\"}"

\* Both unknown names were dispatched and answered: "nope", and one whose
\* canonical name differs from what the URI gave.
C7_Witness ==
  \E r, q \in Reqs :
    /\ Answered(r) /\ looked[r] # <<>> /\ Text(job[r][1].cmd) = "nope"
    /\ Answered(q) /\ looked[q] # <<>> /\ Text(job[q][1].cmd) = "x/n%6Fpe/"
    /\ Unregistered(looked[r][1]) /\ Unregistered(looked[q][1])

(***************************************************************************)
(* C8.  The body of a POST response is decided by the dispatch result      *)
(* alone: after Ok(v) it is the serialization of v, after Err(e) it is the *)
(* object {"error": e} with e unchanged and no other key.                  *)
(***************************************************************************)
C8_Envelope ==
  \A r \in Reqs :
    (Received(r) /\ Method(r) = "POST" /\ Answered(r)) =>
      LET res == result[r][1]
          body == Response(r).body
      IN  /\ res.ok => /\ body = Serialize(res.v)
                       /\ from_slice(body) = <<res.v>>
          /\ ~res.ok => /\ body = Bytes(<<"{", "\"", "e", "r", "r", "o", "r", "\"", ":">>) \o Quoted(res.e) \o Bytes(<<"}">>)
                        /\ from_slice(body) = <<JObj(<<[k |-> Bytes(<<"e", "r", "r", "o", "r">>), v |-> JStr(res.e)]>>)>>
          /\ (Text(looked[r][1]) = "greet" /\ job[r][1].args = ParseArgs(AliceBody)) =>
               Text(body) = "{\"message\":\"Hello, Alice!\"}"
          /\ Text(looked[r][1]) = "fail" => Text(body) = "{\"error\":\"boom\"}"

\* greet was answered for Alice, and a handler-reported error was answered.
C8_Witness ==
  \E r, q \in Reqs :
    /\ Answered(r) /\ Method(r) = "POST" /\ result[r][1].ok
    /\ Text(looked[r][1]) = "greet" /\ job[r][1].args = ParseArgs(AliceBody)
    /\ Answered(q) /\ Method(q) = "POST" /\ ~result[q][1].ok
    /\ Text(looked[q][1]) = "fail"


(***************************************************************************)
(* Vocabulary of the name-resolution properties.                           *)
(***************************************************************************)
Authority(uri) == unwrap_or(uri.authority, <<>>)
Path(uri) == unwrap_or(uri.path_and_query, <<>>)

\* Every '%' of s begins a percent-escape, and no escape stands for '%' or '/'.
PlainEscapes(s) ==
  \A i \in 1..Len(s) :
    s[i] = PERCENT =>
      /\ IsEscapeAt(s, i)
      /\ 16 * HexVal(s[i + 1]) + HexVal(s[i + 2]) \notin {PERCENT, SLASH}

\* s with every percent-encoded slash written as a raw slash.
RECURSIVE RawSlashes(_)
RawSlashes(s) ==
  With(FirstIndex(s, LAMBDA i : IsEscapeAt(s, i)
                                  /\ 16 * HexVal(s[i + 1]) + HexVal(s[i + 2]) = SLASH),
       LAMBDA i :
         IF i = 0 THEN s
         ELSE SubSeq(s, 1, i - 1) \o <<SLASH>> \o RawSlashes(Drop(s, i + 2)))

(***************************************************************************)
(* C9.  As stated: resolving the resolved name of any URI gives the same   *)
(* name again, percent-escapes of '%' and '/' included.                    *)
(***************************************************************************)
C9_Idempotent == stage = "again" => name[2] = name[1]

(***************************************************************************)
(* C9, amended.  Resolving the resolved name of a URI gives the same name  *)
(* again when every '%' of the URI begins a percent-escape and no escape   *)
(* stands for '%' or '/'.                                                  *)
(***************************************************************************)
C9_IdempotentOnPlainEscapes ==
  (stage = "again" /\ PlainEscapes(Authority(raw)) /\ PlainEscapes(Path(raw))) =>
    name[2] = name[1]

\* A URI with an authority and an escape that decodes, resolved twice.
C9_Witness ==
  /\ stage = "again"
  /\ raw.authority # <<>>
  /\ Text(Path(raw)) = "%5F"
  /\ PlainEscapes(Path(raw))
  /\ Text(name[1]) = "h/_"
  /\ name[2] = name[1]

(***************************************************************************)
(* C10.  A name whose slashes are percent-encoded resolves to the name it  *)
(* resolves to with raw slashes: "%2Fgreet" resolves to "greet", and       *)
(* "%2Fmycommands%2Fgreet" is looked up as "mycommands/greet".             *)
(***************************************************************************)
C10_EncodedSlashesResolveAsRaw ==
  (stage = "resolved" /\ raw.authority = <<>>) =>
    /\ name[1] = Resolve(Uri(<<>>, RawSlashes(Path(raw))))
    /\ Text(Path(raw)) = "%2Fgreet" => Text(name[1]) = "greet"
    /\ Text(Path(raw)) = "%2Fmycommands%2Fgreet" =>
         /\ Lookup(registry, name[1]) # 0
         /\ Text(registry[Lookup(registry, name[1])].name) = "mycommands/greet"

\* A path without its first byte when that is a slash.
StripOne(p) == IF p # <<>> /\ Head(p) = SLASH THEN Tail(p) ELSE p

(***************************************************************************)
(* C11.  The resolver combines authority and path: with an empty authority *)
(* the command is the path, with an empty path it is the authority,        *)
(* otherwise authority + "/" + path (the path being taken after its        *)
(* leading slash, where it has one slash at most); "greet" with an empty   *)
(* path resolves to "greet", "mycommands" with "/greet/" to                *)
(* "mycommands/greet".                                                     *)
(***************************************************************************)

C11_Combine ==
  stage = "resolved" =>
    LET host == Authority(raw)
        path == StripOne(Path(raw))
    IN  /\ host = <<>> => name[1] = Canonical(path)
        /\ (host # <<>> /\ path = <<>>) => name[1] = Canonical(host)
        /\ (host # <<>> /\ path # <<>> /\ Head(path) # SLASH) =>
             name[1] = Canonical(host \o <<SLASH>> \o path)
        /\ (Text(host) = "greet" /\ Path(raw) = <<>>) => Text(name[1]) = "greet"
        /\ (Text(host) = "mycommands" /\ Text(Path(raw)) = "/greet/") =>
             Text(name[1]) = "mycommands/greet"

\* Authority "mycommands" with path "/greet/" was resolved.
C11_Witness ==
  /\ stage = "resolved"
  /\ Text(Authority(raw)) = "mycommands"
  /\ Text(Path(raw)) = "/greet/"
  /\ Text(name[1]) = "mycommands/greet"

(***************************************************************************)
(* C12.  As stated: one leading '/' is stripped from the path before it is *)
(* combined with the authority and further leading slashes are kept:       *)
(* "h" with "//x" gives "h//x".                                            *)
(***************************************************************************)
C12_OneLeadingSlashStripped ==
  (stage = "resolved" /\ Authority(raw) # <<>> /\ StripOne(Path(raw)) # <<>>) =>
    name[1] = Canonical(Authority(raw) \o <<SLASH>> \o StripOne(Path(raw)))

(***************************************************************************)
(* C12, amended.  Every leading '/' of the path is stripped before it is   *)
(* combined with the authority, so one more leading slash changes nothing: *)
(* "h" with "//g" gives "h/g", as "h" with "/g" does.                      *)
(***************************************************************************)
C12_AllLeadingSlashesStripped ==
  stage = "resolved" =>
    /\ name[1] = Resolve(Uri(raw.authority, <<SLASH>> \o Path(raw)))
    /\ (Text(Authority(raw)) = "h" /\ Text(Path(raw)) = "//g") => Text(name[1]) = "h/g"
    /\ (Text(Authority(raw)) = "h" /\ Text(Path(raw)) = "/g") => Text(name[1]) = "h/g"

\* "h" with "//g" was resolved.
C12_Witness ==
  /\ stage = "resolved"
  /\ Text(Authority(raw)) = "h"
  /\ Text(Path(raw)) = "//g"
  /\ Text(name[1]) = "h/g"

(***************************************************************************)
(* C13.  When the escapes of the trimmed name do not decode to UTF-8, the  *)
(* lookup uses the trimmed name as it was; nothing panics, the name is     *)
(* dispatched or reported unknown under that name, and the response is a   *)
(* 200 carrying that outcome.                                              *)
(***************************************************************************)
C13_DecodeFailureKeepsName ==
  \A r \in Reqs :
    (looked[r] # <<>>
       /\ ~Utf8Valid(percent_decode_str(trim_matches(job[r][1].cmd, SLASH)))) =>
      LET trimmed == trim_matches(job[r][1].cmd, SLASH)
          msg == Bytes(<<"U", "n", "k", "n", "o", "w", "n", " ", "c", "o", "m", "m", "a", "n", "d", ":", " ">>) \o trimmed
      IN  /\ looked[r][1] = trimmed
          /\ worker[r] # "panicked"
          /\ Unregistered(trimmed) =>
               /\ invoked[r] = <<>>
               /\ fut[r][1] = Ready(Err(msg))
               /\ worker[r] \in {"ready", "done"}
          /\ ~Unregistered(trimmed) =>
               /\ Len(invoked[r]) = 1
               /\ registry[invoked[r][1].idx].name = trimmed
          /\ worker[r] = "done" =>
               /\ Len(responses[r]) = 1
               /\ Response(r).status = 200
               /\ Unregistered(trimmed) =>
                    Response(r).body = Bytes(<<"{", "\"", "e", "r", "r", "o", "r", "\"", ":">>) \o Quoted(msg) \o Bytes(<<"}">>)
          /\ (Text(job[r][1].cmd) = "%FFg/" /\ worker[r] = "done") =>
               Text(Response(r).body) = "{\"error\":\"Unknown command: %FFg\"}"

\* A name with an escape that is not UTF-8, between slashes, was answered.
C13_Witness ==
  \E r \in Reqs :
    /\ worker[r] = "done"
    /\ Text(Path(request[r][1].uri)) = "/%FFg/"
    /\ Text(job[r][1].cmd) = "%FFg/"
    /\ Text(looked[r][1]) = "%FFg"
    /\ Answered(r)

(***************************************************************************)
(* C14.  A POST whose body is not JSON, the empty body included, is not    *)
(* rejected: its arguments are null, its command is resolved and, when     *)
(* registered, called with null, and the response it gets is a 200.        *)
(***************************************************************************)
C14_MalformedBodyIsNull ==
  \A r \in Reqs :
    (Received(r) /\ Method(r) = "POST" /\ from_slice(request[r][1].body) = <<>>) =>
      /\ worker[r] # "none"
      /\ job[r] = <<[cmd |-> BuildCmd(request[r][1].uri), args |-> JNull]>>
      /\ worker[r] = "spawned" => ~Answered(r)
      /\ worker[r] # "spawned" =>
           /\ looked[r] = <<Canonical(job[r][1].cmd)>>
           /\ IF Unregistered(looked[r][1]) THEN invoked[r] = <<>>
              ELSE invoked[r] = <<[idx |-> Lookup(registry, looked[r][1]), args |-> JNull]>>
      /\ Answered(r) =>
           /\ worker[r] = "done"
           /\ Len(responses[r]) = 1
           /\ Response(r).status = 200
           /\ Text(looked[r][1]) = "echo" => Text(Response(r).body) = "null"

\* greet was sent a body that is not JSON, was called with null and the
\* request was answered.
C14_Witness ==
  \E r \in Reqs :
    /\ worker[r] = "done"
    /\ Text(request[r][1].body) \in {"not json", ""}
    /\ Text(looked[r][1]) = "greet"
    /\ invoked[r] = <<[idx |-> 1, args |-> JNull]>>
    /\ Response(r).status = 200

\* ASCII letters folded to lower case.
Lower(bs) == [i \in 1..Len(bs) |-> IF bs[i] >= 65 /\ bs[i] <= 90 THEN bs[i] + 32 ELSE bs[i]]

\* b is a of which bytes were cut off at the end or at the start, or a is b so cut.
NearMiss(a, b) ==
  /\ a # b
  /\ \/ Lower(a) = Lower(b)
     \/ Len(a) < Len(b) /\ (SubSeq(b, 1, Len(a)) = a \/ Drop(b, Len(b) - Len(a)) = a)
     \/ Len(b) < Len(a) /\ SubSeq(a, 1, Len(b)) = b

(***************************************************************************)
(* C15.  A handler is called only when its registered name equals the      *)
(* canonical name byte for byte; a name that differs from a registered     *)
(* name in letter case only, or is a proper prefix or suffix of one or has *)
(* one as a proper prefix, without being registered itself, is an unknown  *)
(* command.                                                                *)
(***************************************************************************)
C15_ExactMatchOnly ==
  \A r \in Reqs :
    looked[r] # <<>> =>
      LET cmd == looked[r][1]
      IN  /\ \A i \in 1..Len(invoked[r]) : registry[invoked[r][i].idx].name = cmd
          /\ Unregistered(cmd) =>
               /\ invoked[r] = <<>>
               /\ fut[r] = <<Ready(UnknownCommand(cmd))>>
          /\ ~Unregistered(cmd) => Len(invoked[r]) = 1
          /\ Text(cmd) \in { "Greet", "GREET", "gree", "reet", "greetx", "Echo",
                             "mycommands", "mycommands/Greet" } =>
               /\ \E i \in 1..Len(registry) : NearMiss(cmd, registry[i].name)
               /\ invoked[r] = <<>>
               /\ worker[r] = "done" =>
                    Response(r).body = Bytes(<<"{", "\"", "e", "r", "r", "o", "r", "\"", ":", "\"", "U", "n", "k", "n", "o", "w", "n", " ", "c", "o", "m", "m", "a", "n", "d", ":", " ">>) \o cmd \o Bytes(<<"\"", "}">>)

\* A name that is a registered name in another letter case was reported
\* unknown.
C15_Witness ==
  \E r \in Reqs :
    /\ worker[r] = "done"
    /\ Text(looked[r][1]) = "Greet"
    /\ \E i \in 1..Len(registry) :
         registry[i].name # looked[r][1] /\ Lower(registry[i].name) = Lower(looked[r][1])
    /\ invoked[r] = <<>>
    /\ Text(Response(r).body) = "{\"error\":\"Unknown command: Greet\"}"

\* What the command and the arguments of request r alone resolve to.
OwnFuture(r) ==
  handle_command(registry, BuildCmd(request[r][1].uri), ParseArgs(request[r][1].body)).fut

\* The responder of r was given one response, that of r's own result.
OwnResponse(r) ==
  /\ worker[r] = "done"
  /\ responses[r] = <<PostResponse(OwnFuture(r).result)>>

\* Requests r and q are POSTs for distinct commands, both dispatched.
Concurrent(r, q) ==
  /\ r < q
  /\ worker[r] # "none" /\ worker[q] # "none"
  /\ job[r][1].cmd # job[q][1].cmd

C16_OwnResults ==
  \A r \in Reqs :
    /\ Len(responses[r]) <= 1
    /\ (worker[r] # "none" /\ Answered(r)) => OwnResponse(r)
    /\ (worker[r] = "done" /\ Text(job[r][1].cmd) = "greet"
          /\ request[r][1].body = AliceBody) =>
         Text(Response(r).body) = "{\"message\":\"Hello, Alice!\"}"
    /\ (worker[r] = "done" /\ Text(job[r][1].cmd) = "mycommands/greet/"
          /\ request[r][1].body = BobBody) =>
         Text(Response(r).body) = "{\"message\":\"hi Bob\"}"

HandledBy(r, h) ==
  /\ Len(invoked[r]) = 1
  /\ registry[invoked[r][1].idx].handler = h

(***************************************************************************)
(* C17.  The handler of a synchronous function and the handler of an async *)
(* function that computes the same are told apart by nothing the           *)
(* dispatcher or the transport shows: called with the same arguments, both *)
(* return a future that completes, with the same Result, and the           *)
(* responses have the same status, headers and body.                       *)
(***************************************************************************)
C17_SyncAsyncAlike ==
  \A r, q \in Reqs :
    (HandledBy(r, "greet") /\ HandledBy(q, "greet_later")
       /\ invoked[r][1].args = invoked[q][1].args) =>
      /\ fut[r][1].kind \in {"ready", "suspend"}
      /\ fut[q][1].kind \in {"ready", "suspend"}
      /\ fut[r][1].result = fut[q][1].result
      /\ (result[r] # <<>> /\ result[q] # <<>>) => result[r] = result[q]
      /\ (worker[r] = "done" /\ worker[q] = "done") =>
           /\ Len(responses[r]) = 1 /\ Len(responses[q]) = 1
           /\ Response(r).status = Response(q).status
           /\ Response(r).headers = Response(q).headers
           /\ Response(r).body = Response(q).body

\* The two were called with the same arguments; the future of the
\* synchronous one was complete at its first poll, that of the async one
\* was pending first, and both requests got the same response.
C17_Witness ==
  \E r, q \in Reqs :
    /\ HandledBy(r, "greet") /\ HandledBy(q, "greet_later")
    /\ invoked[r][1].args = invoked[q][1].args
    /\ worker[r] = "done" /\ worker[q] = "done"
    /\ fut[r][1].kind = "ready" /\ fut[q][1].kind = "suspend"
    /\ result[r][1].ok
    /\ Response(r) = Response(q)

\* The step is the protocol callback running for request r, start to return.
Delivers(r) == request[r] = <<>> /\ request'[r] # <<>>

\* What the callback of a POST leaves when it returns: the worker spawned
\* with the command and the arguments, nothing looked up, called or awaited.
C18_Callback ==
  \A r \in Reqs :
    /\ Delivers(r) =>
         /\ looked' = looked /\ invoked' = invoked /\ fut' = fut /\ result' = result
         /\ \A q \in Reqs \ {r} : worker'[q] = worker[q] /\ responses'[q] = responses[q]
         /\ request'[r][1].method = "POST" =>
              /\ worker'[r] = "spawned"
              /\ job'[r] # <<>>
              /\ responses'[r] = <<>>
    /\ (looked'[r] # looked[r] \/ invoked'[r] # invoked[r]
          \/ fut'[r] # fut[r] \/ result'[r] # result[r]) =>
         /\ worker[r] \in {"spawned", "pending"}
         /\ request' = request

\* A worker the callback spawned has looked up and called nothing yet.
C18_SpawnedOnly ==
  \A r \in Reqs :
    worker[r] = "spawned" =>
      looked[r] = <<>> /\ invoked[r] = <<>> /\ fut[r] = <<>> /\ result[r] = <<>>

(***************************************************************************)
(* C18.  The thread that delivers the requests never runs or waits for a   *)
(* handler: the callback of a POST returns once the worker is spawned,     *)
(* having looked up, called and awaited nothing; lookup, call and wait are *)
(* steps of the worker; and the callback returns, for this request and for *)
(* the next, whether or not the handler ever completes.                    *)
(***************************************************************************)
C18_DeliveryNeverRunsHandler == [][C18_Callback]_vars /\ []C18_SpawnedOnly

\* The handler of one request is pending for ever, its callback has
\* returned, and the next request was delivered and its worker spawned.
C18_Witness ==
  \E r, q \in Reqs :
    /\ r < q
    /\ worker[r] = "pending" /\ fut[r][1].kind = "never" /\ ~Answered(r)
    /\ Received(q) /\ worker[q] = "spawned"

(***************************************************************************)
(* C19.  One invocation per request.  A POST whose canonical name is that  *)
(* of a registered command has, once its worker ran, exactly one handler   *)
(* call, of the first command of that name, with the arguments of the      *)
(* request; a POST for an unknown command, an OPTIONS request and a        *)
(* request of any other method have none; and nothing is called a second   *)
(* time, whatever the handler returned.                                    *)
(***************************************************************************)
C19_OneInvocationPerRequest ==
  \A r \in Reqs :
    /\ Len(invoked[r]) <= 1
    /\ Len(looked[r]) <= 1
    /\ ~Received(r) => invoked[r] = <<>>
    /\ (Received(r) /\ Method(r) # "POST") =>
         invoked[r] = <<>> /\ looked[r] = <<>> /\ worker[r] = "none"
    /\ (Received(r) /\ Method(r) = "POST") =>
         LET cmd == Resolve(request[r][1].uri)
         IN  /\ worker[r] = "spawned" => invoked[r] = <<>>
             /\ (worker[r] # "spawned" /\ Unregistered(cmd)) => invoked[r] = <<>>
             /\ (worker[r] # "spawned" /\ ~Unregistered(cmd)) =>
                  /\ Len(invoked[r]) = 1
                  /\ registry[invoked[r][1].idx].name = cmd
                  /\ \A i \in 1..(invoked[r][1].idx - 1) : registry[i].name # cmd
                  /\ invoked[r][1].args = ParseArgs(request[r][1].body)

\* A request whose handler returned Err was answered after one call; an
\* OPTIONS or other request beside it called nothing.
C19_Witness ==
  \E r, q \in Reqs :
    /\ worker[r] = "done" /\ ~result[r][1].ok
    /\ Len(invoked[r]) = 1
    /\ Received(q) /\ Method(q) # "POST" /\ invoked[q] = <<>>

\* The bytes are a JSON object with the one member "error", a string.
ErrorShaped(body) ==
  \E v \in {from_slice(body)} :
    /\ v # <<>>
    /\ v[1].t = "object"
    /\ Len(v[1].m) = 1
    /\ v[1].m[1].k = Bytes(<<"e", "r", "r", "o", "r">>)
    /\ v[1].m[1].v.t = "string"

(***************************************************************************)
(* C20.  As stated: the body of a POST response has the shape              *)
(* {"error": <string>} only when dispatch resolved to Err, never when a    *)
(* handler resolved to Ok.                                                 *)
(***************************************************************************)
C20_ErrorShapeOnlyAfterErr ==
  \A r \in Reqs :
    (worker[r] = "done" /\ ErrorShaped(Response(r).body)) => ~result[r][1].ok

\* Another command of the registry has the name of command i.
HasDuplicate(i) == \E j \in 1..Len(registry) : j # i /\ registry[j].name = registry[i].name

(***************************************************************************)
(* C21.  When two commands have the same name, every dispatch of that name *)
(* calls the one that comes first in the registry, in the order            *)
(* inventory::iter yields the registrations, and never the later one; two  *)
(* dispatches of the name call the same command.                           *)
(***************************************************************************)
C21_FirstRegistrationWins ==
  \A r \in Reqs :
    invoked[r] # <<>> =>
      LET i == invoked[r][1].idx
      IN  /\ registry[i].name = looked[r][1]
          /\ \A j \in 1..Len(registry) : registry[j].name = looked[r][1] => i <= j
          /\ fut[r][1] = HandlerFuture(registry[i].handler, invoked[r][1].args)
          /\ \A q \in Reqs :
               (invoked[q] # <<>> /\ looked[q] = looked[r]) => invoked[q][1].idx = i
          /\ (Text(looked[r][1]) = "greet" /\ request[r][1].body = AliceBody) =>
               /\ registry[i].handler = "greet"
               /\ worker[r] = "done" =>
                    Text(Response(r).body) = "{\"message\":\"Hello, Alice!\"}"

\* Two requests for a name registered twice were answered, both by the
\* first command of that name.
C21_Witness ==
  \E r, q \in Reqs :
    /\ r # q
    /\ worker[r] = "done" /\ worker[q] = "done"
    /\ invoked[r] # <<>> /\ invoked[q] # <<>>
    /\ looked[r] = looked[q]
    /\ HasDuplicate(invoked[r][1].idx)
    /\ invoked[r][1].idx = 1 /\ invoked[q][1].idx = 1
    /\ registry[4].name = registry[1].name

\* What the typed command behind handler h makes of the arguments: the
\* decoding into its argument type, and what the function then returns.
Typed(h) ==
  h \in {"greet", "mycommands_greet", "greet_later", "mycommands_fetch", "mycommands_find"}

ArgsOf(h, args) ==
  IF h \in {"mycommands_fetch", "mycommands_find"} THEN from_value_u32(args)
  ELSE from_value_GreetArgs(args)

ReturnOf(h, x) ==
  CASE h = "mycommands_greet" -> mycommands_greet(x)
    [] h = "mycommands_fetch" -> mycommands_fetch(x)
    [] h = "mycommands_find" -> mycommands_find(x)
    [] OTHER -> greet(x)

(***************************************************************************)
(* C22.  A handler made from a typed command, called with arguments that   *)
(* do not decode into its argument type, resolves at once to Err of the    *)
(* decode error's description: it does not panic, the result is nothing    *)
(* the command function returned, and the response is a 200 whose body is  *)
(* {"error": <description>}.  So it is for a malformed body, whose         *)
(* arguments are null.                                                     *)
(***************************************************************************)
C22_DecodeFailureIsErr ==
  \A r \in Reqs :
    (invoked[r] # <<>> /\ Typed(registry[invoked[r][1].idx].handler)
       /\ ~ArgsOf(registry[invoked[r][1].idx].handler, invoked[r][1].args).ok) =>
      LET h == registry[invoked[r][1].idx].handler
          d == ArgsOf(h, invoked[r][1].args)
      IN  /\ d.e # <<>>
          /\ fut[r] = <<Ready(Err(d.e))>>
          /\ worker[r] \in {"ready", "done"}
          /\ result[r] = <<Err(d.e)>>
          /\ result[r][1] # Ok(ReturnOf(h, d.x))
          /\ worker[r] = "done" =>
               /\ Len(responses[r]) = 1
               /\ Response(r).status = 200
               /\ Response(r).body = Bytes(<<"{", "\"", "e", "r", "r", "o", "r", "\"", ":">>) \o Quoted(d.e) \o Bytes(<<"}">>)
               /\ (h = "greet" /\ from_slice(request[r][1].body) = <<>>) =>
                    Response(r).body =
                      Bytes(<<"{", "\"", "e", "r", "r", "o", "r", "\"", ":", "\"", "i", "n", "v", "a", "l", "i", "d", " ", "t", "y", "p", "e", ":", " ", "n", "u", "l", "l", ",", " ", "e", "x", "p", "e", "c", "t", "e", "d", " ", "s", "t", "r", "u", "c", "t", " ", "G", "r", "e", "e", "t", "A", "r", "g", "s", "\"", "}">>)
               /\ (h = "greet" /\ Text(request[r][1].body) = "{\"error\":\"x\"}") =>
                    Response(r).body = Bytes(<<"{", "\"", "e", "r", "r", "o", "r", "\"", ":", "\"", "m", "i", "s", "s", "i", "n", "g", " ", "f", "i", "e", "l", "d", " ", "<60>", "n", "a", "m", "e", "<60>", "\"", "}">>)
               /\ (h = "greet" /\ Text(request[r][1].body) = "7") =>
                    Response(r).body =
                      Bytes(<<"{", "\"", "e", "r", "r", "o", "r", "\"", ":", "\"", "i", "n", "v", "a", "l", "i", "d", " ", "t", "y", "p", "e", ":", " ", "i", "n", "t", "e", "g", "e", "r", " ", "<60>", "7", "<60>", ",", " ", "e", "x", "p", "e", "c", "t", "e", "d", " ", "s", "t", "r", "u", "c", "t", " ", "G", "r", "e", "e", "t", "A", "r", "g", "s", "\"", "}">>)
               /\ (h = "mycommands_fetch" /\ request[r][1].body = AliceBody) =>
                    Response(r).body =
                      Bytes(<<"{", "\"", "e", "r", "r", "o", "r", "\"", ":", "\"", "i", "n", "v", "a", "l", "i", "d", " ", "t", "y", "p", "e", ":", " ", "m", "a", "p", ",", " ", "e", "x", "p", "e", "c", "t", "e", "d", " ", "u", "3", "2", "\"", "}">>)

\* greet was sent a body that is not JSON and answered with the decode
\* error of null.
C22_Witness ==
  \E r \in Reqs :
    /\ worker[r] = "done"
    /\ Text(request[r][1].body) = "not json"
    /\ invoked[r] # <<>> /\ registry[invoked[r][1].idx].handler = "greet"
    /\ ~result[r][1].ok
    /\ Response(r).status = 200
    /\ Response(r).body = Bytes(<<"{", "\"", "e", "r", "r", "o", "r", "\"", ":", "\"", "i", "n", "v", "a", "l", "i", "d", " ", "t", "y", "p", "e", ":", " ", "n", "u", "l", "l", ",", " ", "e", "x", "p", "e", "c", "t", "e", "d", " ", "s", "t", "r", "u", "c", "t", " ", "G", "r", "e", "e", "t", "A", "r", "g", "s", "\"", "}">>)

(***************************************************************************)
(* C23.  When the envelope of a POST result cannot be serialized, the      *)
(* request is answered all the same, once, with status 200, the JSON       *)
(* content type and the CORS header, and its body is the empty buffer:     *)
(* the body of a POST response is either the encoded envelope or empty,    *)
(* and the encode error changes nothing else.                              *)
(***************************************************************************)
C23_EncodeFailureGivesEmptyBody ==
  \A r \in Reqs :
    /\ Len(responses[r]) <= 1
    /\ worker[r] = "done" =>
         /\ Len(responses[r]) = 1
         /\ Response(r).status = 200
         /\ Response(r).headers = << <<"Content-Type", "application/json">>,
                                     <<"Access-Control-Allow-Origin", "*">> >>
         /\ \/ Response(r).body = <<>>
            \/ Response(r).body = Serialize(ResponseValue(result[r][1]))
    /\ worker[r] \in {"none", "spawned", "pending", "ready"} => ~Answered(r)

\* The result was Ok, its encoding failed, and the request was answered
\* 200 with the empty body.
C23_Witness ==
  \E r \in Reqs :
    /\ worker[r] = "done"
    /\ result[r][1].ok
    /\ Len(responses[r]) = 1
    /\ Response(r).status = 200
    /\ Response(r).body = <<>>
    /\ Serialize(ResponseValue(result[r][1])) # <<>>

\* The handler of r is pending and will never complete.
Stuck(r) == worker[r] = "pending" /\ fut[r][1].kind = "never"

\* No request waits for another: a request of another method has its
\* answer when the callback returns, and each step of a worker can be
\* taken whatever the other workers are doing.
C24_NothingQueued ==
  \A q \in Reqs :
    /\ (Received(q) /\ Method(q) # "POST") => Answered(q)
    /\ (Received(q) /\ Method(q) = "POST") => worker[q] # "none"
    /\ worker[q] = "spawned" => ENABLED WorkerRun(q)
    /\ (worker[q] = "pending" /\ fut[q][1].kind = "suspend") => ENABLED WorkerWake(q)
    /\ worker[q] = "ready" => ENABLED WorkerRespond(q)

(***************************************************************************)
(* C24.  A handler that never completes blocks its own request only:       *)
(* under fair scheduling of the workers, while the handler of one POST is  *)
(* stuck, every other request, delivered before it or after it, is         *)
(* eventually answered unless its own handler is stuck too; no request is  *)
(* refused or made to wait for another.                                    *)
(***************************************************************************)
C24_StuckHandlerBlocksOnlyItself ==
  /\ []C24_NothingQueued
  /\ \A r, q \in Reqs :
       (r # q /\ Stuck(r) /\ Received(q)) ~> (Answered(q) \/ Stuck(q))

\* The handler of the first request is stuck; the request delivered after
\* it, a POST, was answered.
C24_Witness ==
  \E r, q \in Reqs :
    /\ r < q
    /\ Stuck(r) /\ ~Answered(r)
    /\ Received(q) /\ Method(q) = "POST"
    /\ worker[q] = "done" /\ Answered(q)

\* The POST request r is in flight with a result to answer with.
ReadyToAnswer(r) == worker[r] = "ready" /\ ~Answered(r)

(***************************************************************************)
(* C25.  Nothing orders the answers of the POST requests in flight: when   *)
(* request A, received first, and request B both have their result, the    *)
(* step that answers A and the step that answers B can each be taken, so   *)
(* A may be answered before B and B before A.                              *)
(***************************************************************************)
C25_EitherOrder ==
  \A a, b \in Reqs :
    (a < b /\ ReadyToAnswer(a) /\ ReadyToAnswer(b)) =>
      /\ ENABLED (WorkerRespond(a) /\ responses'[b] = <<>>)
      /\ ENABLED (WorkerRespond(b) /\ responses'[a] = <<>>)

\* B, received after A, has its answer and A, whose result is there, has
\* none yet.
C25_Witness ==
  \E a, b \in Reqs :
    /\ a < b
    /\ worker[b] = "done" /\ Answered(b)
    /\ ReadyToAnswer(a)
    /\ Method(a) = "POST" /\ Method(b) = "POST"

(***************************************************************************)
(* C26.  Dispatch does not see raw slashes before and after the name: for  *)
(* a name n, handle_command of "/" + n, of n + "/" and of "//" + n + "//"  *)
(* looks up the same name as handle_command of n, finds the same command   *)
(* and returns the same future, or the same unknown-command error, which   *)
(* names the trimmed name (decoded where it has escapes) and none of the   *)
(* slashes put around it.                                                  *)
(***************************************************************************)
C26_SlashesIgnored ==
  stage = "resolved" =>
    LET call == name[1].call
        plain == name[1].plain
        trimmed == trim_matches(raw, SLASH)
    IN  /\ call.name = plain.name
        /\ call.idx = plain.idx
        /\ call.fut = plain.fut
        /\ (\A i \in 1..Len(raw) : raw[i] # PERCENT) => call.name = trimmed
        /\ (call.name # <<>>) => (Head(call.name) # SLASH \/ PERCENT \in {raw[i] : i \in 1..Len(raw)})
        /\ call.idx = 0 =>
             call.fut = Ready(Err(Bytes(<<"U", "n", "k", "n", "o", "w", "n", " ", "c", "o", "m", "m", "a", "n", "d", ":", " ">>) \o call.name))
        /\ call.idx # 0 => registry[call.idx].name = call.name
        /\ Text(raw) = "greet" => call.idx = 1
        /\ Text(raw) = "mycommands/greet" => call.idx = 2
        /\ Text(raw) = "nope" =>
             call.fut = Ready(Err(Bytes(<<"U", "n", "k", "n", "o", "w", "n", " ", "c", "o", "m", "m", "a", "n", "d", ":", " ", "n", "o", "p", "e">>)))

\* "//mycommands/greet//" was dispatched to the command "mycommands/greet".
C26_Witness ==
  /\ stage = "resolved"
  /\ Text(name[1].raw_cmd) = "//mycommands/greet//"
  /\ name[1].call.idx = 2
  /\ name[1].call.fut.result.ok

(***************************************************************************)
(* C27.  The handler made from a typed command resolves to Err only when   *)
(* the arguments do not decode (the return values of the modelled commands *)
(* always serialize).  What the function returns is the Ok payload, a      *)
(* Result::Err(e) included: it reaches the client as the success body      *)
(* {"Err": e} and never as {"error": e}.                                   *)
(***************************************************************************)
C27_FunctionErrIsOkPayload ==
  \A r \in Reqs :
    (invoked[r] # <<>> /\ Typed(registry[invoked[r][1].idx].handler)) =>
      LET h == registry[invoked[r][1].idx].handler
          d == ArgsOf(h, invoked[r][1].args)
      IN  /\ fut[r][1].result.ok <=> d.ok
          /\ d.ok =>
               /\ fut[r][1].result = Ok(ReturnOf(h, d.x))
               /\ worker[r] = "done" =>
                    /\ Response(r).body = Serialize(ReturnOf(h, d.x))
                    /\ ~ErrorShaped(Response(r).body)
          /\ (h = "mycommands_find" /\ Text(request[r][1].body) = "0") =>
               /\ fut[r][1].result.ok
               /\ worker[r] = "done" =>
                    Response(r).body = Bytes(<<"{", "\"", "E", "r", "r", "\"", ":", "\"", "n", "o", " ", "s", "u", "c", "h", " ", "i", "d", "\"", "}">>)
          /\ (h = "mycommands_fetch" /\ Text(request[r][1].body) = "7"
                /\ worker[r] = "done") =>
               Response(r).body = Bytes(<<"{", "\"", "O", "k", "\"", ":", "\"", "F", "e", "t", "c", "h", "e", "d", " ", "7", "\"", "}">>)

\* The function of a command returned Err; the handler resolved to Ok and
\* the body is {"Err": e}.
C27_Witness ==
  \E r \in Reqs :
    /\ worker[r] = "done"
    /\ invoked[r] # <<>> /\ registry[invoked[r][1].idx].handler = "mycommands_find"
    /\ result[r][1].ok
    /\ Member(result[r][1].v.m, Bytes(<<"E", "r", "r">>)) # <<>>
    /\ Response(r).body = Bytes(<<"{", "\"", "E", "r", "r", "\"", ":", "\"", "n", "o", " ", "s", "u", "c", "h", " ", "i", "d", "\"", "}">>)

(***************************************************************************)
(* C28.  Dispatch never changes the registry: in every state, after any    *)
(* requests in any interleaving and with any outcome, the registry holds   *)
(* the commands collected at initialization, with their names and          *)
(* handlers, in the same order; no step adds, removes or replaces one.     *)
(***************************************************************************)
C28_RegistryUnchanged ==
  /\ [](registry = Registry)
  /\ [][/\ Len(registry') = Len(registry)
        /\ \A i \in 1..Len(registry) : registry'[i] = registry[i]]_vars

\* One handler panicked, another request was dispatched and answered, a
\* command had a pending future completed, and the registry is as it was.
C28_Witness ==
  /\ \E r, q \in Reqs :
       /\ worker[r] = "panicked"
       /\ worker[q] = "done" /\ invoked[q] # <<>> /\ fut[q][1].kind = "suspend"
  /\ registry = Registry

=============================================================================
